---- MODULE Spec2Model ----
(***************************************************************************)
(* Verification model of the LinkedIn job-search assistant:                *)
(*   - the persistence layer (job_listings, job_states, job_analysis,      *)
(*     schedule_settings) as DatabaseService drives it,                    *)
(*   - the two-stage LLM relevance pipeline (strategies, JSON parser,      *)
(*     JobAnalysisService.analyze_job),                                    *)
(*   - the scraper's per-posting handler,                                  *)
(*   - the scheduler's job-status map, callback map and status lock.       *)
(* Each subsystem has its own specification over the shared variables.     *)
(***************************************************************************)
EXTENDS Integers, Sequences, FiniteSets, TLC

VARIABLES
    \* ---- database tables (database/models.py) ----
    job_listings,      \* set of job_id: rows of job_listings
    job_states,        \* sequence of rows of job_states, in state_id order
    job_analysis,      \* set of rows of job_analysis (UNIQUE (job_id, user_id))
    clock,             \* what datetime.datetime.now() returns
    lastCall,          \* the last DatabaseService / Orchestrator call and its outcome
    \* ---- JobAnalysisService.analyze_job in flight ----
    an,                \* the call: where it is, its arguments
    titleRun,          \* the TitleAnalysisStrategy.analyze invocation of the call
    descRun,           \* the DescriptionAnalysisStrategy.analyze invocation
    result,            \* what analyze_job returned
    batch,             \* the analyze_queued_jobs call: its queue, tallies, events
    reanalysis,        \* the reanalyze_job call and how it ended
    \* ---- ScraperService ----
    scraper,           \* its instance fields
    scrLog,            \* what the current scrape call delivered, appended and reported
    \* ---- SchedulerService ----
    running_jobs,      \* self.running_jobs: job id -> status record
    callbacks,         \* self.callbacks: job id -> callback
    status_lock,       \* the thread holding self.status_lock, or "free"
    workers,           \* the threads running the scrape -> analyze workflow
    canceller,         \* the request thread inside cancel_job
    schedule_settings, \* the schedule_settings table: user id -> last_run
    schedLog,          \* how the two maps were accessed and the callbacks invoked
    notified,          \* the job ids whose callback got a completed or failed
                       \* record, and those whose callback was called after that
    \* ---- schedule rows and the periodic triggers of the schedule library ----
    schedule_rows,     \* the schedule_settings table: type, time, enabled per row
    triggers,          \* schedule.jobs: the registered periodic jobs
    loaders,           \* the threads inside update_schedule / _load_schedules
    \* ---- the poll thread of SchedulerService and its start, stop, restart ----
    scheduler_thread,  \* self.scheduler_thread: a poll thread id, 0 for None
    stop_event,        \* self.stop_event: set or clear
    poll_threads,      \* the poll threads ever created: where each is
    caller,            \* the thread calling start, stop or restart
    \* ---- OrchestratorService.get_job_details in flight ----
    viewer,            \* the get_job_details call: its arguments, what it read, how it ended
    \* ---- DatabaseManager.transaction around delete_job, statement by statement ----
    txn,               \* the scoped transaction: where it is, the tables when it began
    \* ---- DatabaseManager: the per-thread connection pool ----
    connection_pool,   \* self.connection_pool: thread identifier -> connection, 0 for none
    db_threads,        \* the threads of the process: state and identifier of each
    connections,       \* the connections created: the thread each was created for
    used,              \* which thread got which connection from get_connection
    \* ---- OrchestratorService.search_jobs ----
    search,            \* the last search_jobs call: its arguments and the rows returned
    \* ---- utils/security.py: passwords ----
    pw,                \* the password generate_password returned and what validate_password said
    \* ---- scrape calls sharing the scraper service ----
    scrape_runs,       \* each scrape call: where it is, its kind, user, callback and query
    runLog             \* what _handle_data did for each delivery, with the call that discovered it

dbVars == <<job_listings, job_states, job_analysis, clock, lastCall>>
anVars == <<an, titleRun, descRun, result, batch, reanalysis>>
scrVars == <<scraper, scrLog>>
schVars == <<running_jobs, callbacks, status_lock, workers, canceller,
             schedule_settings, schedLog, notified>>

ldVars == <<schedule_rows, triggers, loaders>>
lcVars == <<scheduler_thread, stop_event, poll_threads, caller>>
brVars == <<viewer>>
txVars == <<txn>>
poolVars == <<connection_pool, db_threads, connections, used>>
srVars == <<search>>
pwVars == <<pw>>
runVars == <<scrape_runs, runLog>>
restVars == <<ldVars, lcVars, brVars, txVars, poolVars, srVars, pwVars, runVars>>

\* What an operation on one group of variables leaves alone
ldFrame == <<dbVars, anVars, scrVars, schVars, lcVars, brVars, txVars, poolVars, srVars, pwVars, runVars>>
lcFrame == <<dbVars, anVars, scrVars, schVars, ldVars, brVars, txVars, poolVars, srVars, pwVars, runVars>>
brFrame == <<anVars, scrVars, schVars, ldVars, lcVars, txVars, poolVars, srVars, pwVars, runVars>>
txFrame == <<anVars, scrVars, schVars, ldVars, lcVars, brVars, poolVars, srVars, pwVars, runVars>>
poolFrame == <<dbVars, anVars, scrVars, schVars, ldVars, lcVars, brVars, txVars, srVars, pwVars, runVars>>
srFrame == <<dbVars, anVars, scrVars, schVars, ldVars, lcVars, brVars, txVars, poolVars, pwVars, runVars>>
pwFrame == <<dbVars, anVars, scrVars, schVars, ldVars, lcVars, brVars, txVars, poolVars, srVars, runVars>>
runFrame == <<anVars, schVars, ldVars, lcVars, brVars, txVars, poolVars, srVars, pwVars>>

vars == <<job_listings, job_states, job_analysis, clock, lastCall,
          an, titleRun, descRun, result, batch, reanalysis, scraper, scrLog,
          running_jobs, callbacks, status_lock, workers, canceller,
          schedule_settings, schedLog, notified,
          schedule_rows, triggers, loaders,
          scheduler_thread, stop_event, poll_threads, caller,
          viewer,
          txn,
          connection_pool, db_threads, connections, used,
          search,
          pw,
          scrape_runs, runLog>>

----------------------------------------------------------------------------
(* Bounds of the model *)

MaxStateRows == 2      \* rows the job_states table may hold
MaxClock == 1          \* readings of the wall clock

Jobs == {"j1", "j2"}
UserIds == {1, 2}
Scores == {5, 9}       \* relevance scores in tenths: 0.5, 0.9

NoCall == [op |-> "none"]
DeleteCall(j, u) == [op |-> "delete_job", job_id |-> j, user_id |-> u]

----------------------------------------------------------------------------
(* database/models.py *)

VALID_STATES ==
    {"new_scraped", "queued_for_analysis", "analyzing", "analyzed", "relevant",
     "irrelevant", "viewed", "saved", "applied", "rejected"}

\* The states the model appends through the public add_job_state entry point,
\* and one value outside VALID_STATES.
StateInputs == {"queued_for_analysis", "analyzed", "bogus"}

Range(s) == {s[i] : i \in DOMAIN s}

Max(S) == CHOOSE x \in S : \A y \in S : y <= x

----------------------------------------------------------------------------
(* services/database_service.py: queries *)

\* The job_states rows of one (job, user) pair, in insertion order.
PairRows(rows, j, u) ==
    SelectSeq(rows, LAMBDA r : r.job_id = j /\ r.user_id = u)

\* SELECT MAX(state_timestamp) ... WHERE job_id = ? AND user_id = ?
MaxTimestamp(rows, j, u) ==
    Max({r.state_timestamp : r \in Range(PairRows(rows, j, u))})

\* get_current_job_state: ORDER BY state_timestamp DESC LIMIT 1.  SQL leaves
\* the order among equal timestamps open, so the result is any row with the
\* greatest timestamp; the empty set stands for None.
get_current_job_state(rows, j, u) ==
    {r \in Range(PairRows(rows, j, u)) :
        r.state_timestamp = MaxTimestamp(rows, j, u)}

\* get_jobs_by_state: the job ids of the rows the join returns.
get_jobs_by_state(listings, rows, u, s) ==
    {j \in listings :
        \E r \in Range(PairRows(rows, j, u)) :
            /\ r.state = s
            /\ r.state_timestamp = MaxTimestamp(rows, j, u)}

\* get_job_analysis
get_job_analysis(analysis, j, u) ==
    {a \in analysis : a.job_id = j /\ a.user_id = u}

\* The state appended last for the pair (the row with the greatest state_id).
LastAppended(rows, j, u) ==
    PairRows(rows, j, u)[Len(PairRows(rows, j, u))].state

----------------------------------------------------------------------------
(* services/database_service.py: writes, as functions on the tables *)

StateRow(j, u, s, now) ==
    [job_id |-> j, user_id |-> u, state |-> s, state_timestamp |-> now]

\* INSERT INTO job_states ... with state_timestamp = datetime.now()
InsertStateReplacing(rows, j, u, s, now) ==
    Append(SelectSeq(rows, LAMBDA r : ~(r.job_id = j /\ r.user_id = u)),
           StateRow(j, u, s, now))

InsertState(rows, j, u, s, now) == Append(rows, StateRow(j, u, s, now))

\* One state row per entry of sts, the clock read at each append.
RECURSIVE AppendStates(_, _, _, _, _)
AppendStates(rows, j, u, sts, times) ==
    IF sts = <<>> THEN rows
    ELSE AppendStates(InsertState(rows, j, u, Head(sts), Head(times)),
                      j, u, Tail(sts), Tail(times))

\* Non-decreasing clock readings for n appends, starting at clock.
ClockReadings(n) ==
    {ts \in [1..n -> clock..MaxClock] :
        \A i \in 1..n : \A k \in 1..n : i <= k => ts[i] <= ts[k]}

\* INSERT OR REPLACE INTO job_analysis: UNIQUE (job_id, user_id)
InsertOrReplaceAnalysis(analysis, j, u, score) ==
    {a \in analysis : ~(a.job_id = j /\ a.user_id = u)}
        \cup {[job_id |-> j, user_id |-> u, relevance_score |-> score]}

\* DELETE FROM job_states WHERE job_id = ? AND user_id = ?
DeleteUserStatesAnyUser(rows, j, u) ==
    SelectSeq(rows, LAMBDA r : r.job_id # j)

DeleteUserStates(rows, j, u) ==
    SelectSeq(rows, LAMBDA r : ~(r.job_id = j /\ r.user_id = u))

\* DELETE FROM job_analysis WHERE job_id = ? AND user_id = ?
DeleteUserAnalysis(analysis, j, u) ==
    {a \in analysis : ~(a.job_id = j /\ a.user_id = u)}

\* SELECT COUNT(*) FROM (SELECT user_id FROM job_states WHERE job_id = ?
\*                       UNION SELECT user_id FROM job_analysis WHERE job_id = ?)
RefCountStatesOnly(rows, analysis, j) ==
    Cardinality({r.user_id : r \in {x \in Range(rows) : x.job_id = j}})

RefCount(rows, analysis, j) ==
    Cardinality({r.user_id : r \in {x \in Range(rows) : x.job_id = j}}
                \cup {a.user_id : a \in {x \in analysis : x.job_id = j}})

----------------------------------------------------------------------------
(* services/database_service.py: operations *)

\* add_job_listing: ValueError when the job_id already exists.
DatabaseService_add_job_listing(j) ==
    /\ UNCHANGED restVars
    /\ j \notin job_listings
    /\ job_listings' = job_listings \cup {j}
    /\ lastCall' = NoCall
    /\ UNCHANGED <<job_states, job_analysis, clock>>
    /\ UNCHANGED <<anVars, scrVars, schVars>>

\* add_job_state: ValueError for a state outside VALID_STATES; the foreign key
\* to job_listings (PRAGMA foreign_keys = ON) rejects an unknown job_id.
DatabaseService_add_job_state(j, u, s) ==
    /\ UNCHANGED restVars
    /\ Len(job_states) < MaxStateRows
    /\ IF s \in VALID_STATES /\ j \in job_listings
       THEN job_states' = InsertState(job_states, j, u, s, clock)
       ELSE job_states' = job_states
    /\ lastCall' = NoCall
    /\ UNCHANGED <<job_listings, job_analysis, clock>>
    /\ UNCHANGED <<anVars, scrVars, schVars>>

\* add_job_analysis
DatabaseService_add_job_analysis(j, u, score) ==
    /\ UNCHANGED restVars
    /\ j \in job_listings
    /\ job_analysis' = InsertOrReplaceAnalysis(job_analysis, j, u, score)
    /\ lastCall' = NoCall
    /\ UNCHANGED <<job_listings, job_states, clock>>
    /\ UNCHANGED <<anVars, scrVars, schVars>>

\* delete_job(job_id, user_id): the user-specific branch, one transaction.
DatabaseService_delete_job(j, u) ==
    LET rows == DeleteUserStates(job_states, j, u)
        analysis == DeleteUserAnalysis(job_analysis, j, u)
    IN  /\ job_states' = rows
        /\ job_analysis' = analysis
        /\ job_listings' = IF RefCount(rows, analysis, j) = 0
                           THEN job_listings \ {j}
                           ELSE job_listings
        /\ lastCall' = DeleteCall(j, u)
        /\ UNCHANGED clock
        /\ UNCHANGED <<anVars, scrVars, schVars>>

\* OrchestratorService.delete_job: get_job_details raises ValueError when the
\* listing does not exist (an error result, nothing deleted); the viewed row it
\* may append belongs to the deleting user and is deleted with the rest.
OrchestratorService_delete_job(j, u) ==
    /\ UNCHANGED restVars
    /\ j \in job_listings
    /\ DatabaseService_delete_job(j, u)

\* datetime.datetime.now() advances between two calls, or does not (the
\* resolution of the wall clock is finite).
ClockTick ==
    /\ UNCHANGED restVars
    /\ clock < MaxClock
    /\ clock' = clock + 1
    /\ lastCall' = NoCall
    /\ UNCHANGED <<job_listings, job_states, job_analysis>>
    /\ UNCHANGED <<anVars, scrVars, schVars>>

----------------------------------------------------------------------------
(* services/llm_json_parser.py: LLM output as a sequence of tokens *)

\* "{" and "}" are braces; "K5" and "K9" are a key/value pair whose key is the
\* one the calling strategy reads (estimated_relevance, relevance_score), with
\* the value 0.5 or 0.9; "N" is a bare JSON number; "F" is a ``` code fence
\* (with its optional json tag); "x" is prose.
Tokens == {"{", "}", "K5", "K9", "N", "F", "x"}

\* The completions the provider is taken to return.
Completions ==
    { <<"{", "K9", "}">>,                      \* an object scoring 0.9
      <<"{", "K5", "}">>,                      \* an object scoring 0.5
      <<"{", "}">>,                            \* an object without the key
      <<"x", "{", "K9", "}", "x">>,            \* an object inside prose
      <<"F", "{", "K5", "}", "F">>,            \* an object inside a code block
      <<"F", "N", "F", "{", "K9", "}">>,       \* a number in a code block, then an object
      <<"F", "x", "F", "{", "K9", "}">>,       \* prose in a code block, then an object
      <<"{", "x", "}">>,                       \* braces around no JSON
      <<"N">>,                                 \* a number: JSON, but no object
      <<"x">>,                                 \* prose only
      <<>> }                                   \* nothing

\* An absent dictionary key (dict.get falls back to its default).
Missing == -1

IsPair(tok) == tok \in {"K5", "K9"}

PairValue(tok) == IF tok = "K5" THEN 5 ELSE 9

\* The tokens spell one JSON object: braces around key/value pairs.
IsJsonObject(t) ==
    /\ Len(t) >= 2
    /\ t[1] = "{"
    /\ t[Len(t)] = "}"
    /\ \A i \in 2..(Len(t) - 1) : IsPair(t[i])

\* json.loads: a dict (of a repeated key the last value stays), another JSON
\* value, or JSONDecodeError.
json_loads(t) ==
    IF IsJsonObject(t)
    THEN [kind |-> "dict",
          score |-> IF Len(t) = 2 THEN Missing ELSE PairValue(t[Len(t) - 1])]
    ELSE IF t = <<"N">>
         THEN [kind |-> "nondict", score |-> Missing]
         ELSE [kind |-> "JSONDecodeError", score |-> Missing]

\* Positions of the code fences, in order.
FencePositions(t) ==
    SelectSeq([i \in 1..Len(t) |-> i], LAMBDA i : t[i] = "F")

\* re.findall(r"```(?:json)?(.*?)```", text, re.DOTALL): the text between the
\* 1st and 2nd fence, the 3rd and 4th, ...
CodeBlocks(t) ==
    LET fp == FencePositions(t)
    IN  [k \in 1..(Len(fp) \div 2) |-> SubSeq(t, fp[2 * k - 1] + 1, fp[2 * k] - 1)]

\* re.search(r"\{.*\}", text, re.DOTALL): from the first "{" to the last "}".
BraceSpan(t) ==
    LET opens == {i \in 1..Len(t) : t[i] = "{"}
        closes == {i \in 1..Len(t) : t[i] = "}"}
    IN  IF opens = {} \/ closes = {} THEN <<>>
        ELSE LET i == CHOOSE x \in opens : \A y \in opens : x <= y
                 j == Max(closes)
             IN  IF i < j THEN SubSeq(t, i, j) ELSE <<>>

\* LLMJsonParser.parse: the first code block that loads, else the brace span,
\* else the raw text, else ValueError.
LLMJsonParser_parse(t) ==
    LET blocks == CodeBlocks(t)
        good == {k \in 1..Len(blocks) : json_loads(blocks[k]).kind # "JSONDecodeError"}
        span == BraceSpan(t)
    IN  IF good # {}
        THEN json_loads(blocks[CHOOSE k \in good : \A m \in good : k <= m])
        ELSE IF span # <<>> /\ json_loads(span).kind # "JSONDecodeError"
        THEN json_loads(span)
        ELSE IF json_loads(t).kind # "JSONDecodeError"
        THEN json_loads(t)
        ELSE [kind |-> "ValueError", score |-> Missing]

\* Some stretch of the text is a JSON object.
ContainsJsonObject(t) ==
    \E i \in 1..Len(t) : \E j \in i..Len(t) : IsJsonObject(SubSeq(t, i, j))

----------------------------------------------------------------------------
(* services/llm_provider.py, services/analysis_strategy.py *)

\* What one generate_completion call does: it raises (a ValueError or another
\* exception) or returns text.
ProviderOutcomes ==
    {[kind |-> "raise", class |-> c, text |-> <<>>] : c \in {"ValueError", "Exception"}}
        \cup {[kind |-> "text", class |-> "none", text |-> t] : t \in Completions}

\* How an attempt is remembered.
OutcomeKind(o) ==
    IF o.kind = "raise" THEN o.class
    ELSE IF ContainsJsonObject(o.text) THEN "text_with_object"
    ELSE "text_without_object"

max_retries == 3
DEFAULT_TITLE_MATCH_STRICTNESS == 8     \* 0.8, in tenths
DEFAULT_RELEVANCE_THRESHOLD == 7        \* 0.7, in tenths

IdleRun ==
    [status |-> "idle", attempt |-> 0, calls |-> 0, sleeps |-> 0,
     kinds |-> <<>>, score |-> 0, reasoning |-> "none"]

StartedRun == [IdleRun EXCEPT !.status = "running"]

\* dict.get(key, 0.0)
DictGet(parsed) == IF parsed.score = Missing THEN 0 ELSE parsed.score

\* One iteration of `for attempt in range(self.max_retries)` of
\* TitleAnalysisStrategy.analyze / DescriptionAnalysisStrategy.analyze:
\*   - a ValueError (raised by generate_completion or by the parser) is
\*     re-raised at once;
\*   - a parsed dict ends the call with its score;
\*   - anything else (another exception of the provider, the AttributeError
\*     of .get on a parsed value that is no dict) sleeps and retries, and on
\*     the last attempt returns the "API error" fallback.
StrategyAttempt(run, o) ==
    LET base == [run EXCEPT !.calls = @ + 1, !.kinds = Append(@, OutcomeKind(o))]
        parsed == LLMJsonParser_parse(o.text)
    IN  IF o.kind = "raise" /\ o.class = "ValueError"
        THEN [base EXCEPT !.status = "raised"]
        ELSE IF o.kind = "text" /\ parsed.kind = "ValueError"
        THEN [base EXCEPT !.status = "raised"]
        ELSE IF o.kind = "text" /\ parsed.kind = "dict"
        THEN [base EXCEPT !.status = "returned", !.score = DictGet(parsed),
                          !.reasoning = "llm"]
        ELSE IF run.attempt < max_retries - 1
        THEN [base EXCEPT !.attempt = @ + 1, !.sleeps = @ + 1]
        ELSE [base EXCEPT !.status = "returned", !.score = 0,
                          !.reasoning = "API error"]

----------------------------------------------------------------------------
(* services/job_analysis_service.py: analyze_job *)

\* analysis_prefs as passed in: a key is set or absent.
PrefInputs ==
    {[title_match_strictness |-> s, relevance_threshold |-> Missing] :
        s \in {Missing, 10}}

\* analysis_prefs.get('title_match_strictness', DEFAULT_TITLE_MATCH_STRICTNESS)
TitleMatchStrictness(prefs) ==
    IF prefs.title_match_strictness = Missing
    THEN DEFAULT_TITLE_MATCH_STRICTNESS ELSE prefs.title_match_strictness

\* analysis_prefs.get('relevance_threshold', DEFAULT_RELEVANCE_THRESHOLD)
RelevanceThreshold(prefs) ==
    IF prefs.relevance_threshold = Missing
    THEN DEFAULT_RELEVANCE_THRESHOLD ELSE prefs.relevance_threshold

IdleCall ==
    [pc |-> "idle", job_id |-> "none", user_id |-> 0, store_results |-> FALSE,
     prefs |-> [title_match_strictness |-> Missing, relevance_threshold |-> Missing]]

NoResult ==
    [status |-> "none", job_id |-> "none", relevance_score |-> Missing,
     is_relevant |-> FALSE, skip_reason |-> "none", error |-> "none"]

\* The except branch of analyze_job: a record with the job id and the error
\* (the exception, for its text), no score, no is_relevant and no skip reason.
\* `"job_id": job.get('job_id', 'unknown')` ...
ErrorResultUnknownJob(j, e) ==
    [status |-> "error", job_id |-> "unknown", relevance_score |-> Missing,
     is_relevant |-> FALSE, skip_reason |-> "none", error |-> e]

ErrorResult(j, e) ==
    [status |-> "error", job_id |-> j, relevance_score |-> Missing,
     is_relevant |-> FALSE, skip_reason |-> "none", error |-> e]

\* _create_analysis_result
AnalysisResult(j, score, is_relevant, skip_reason) ==
    [status |-> "ok", job_id |-> j, relevance_score |-> score,
     is_relevant |-> is_relevant, skip_reason |-> skip_reason, error |-> "none"]

\* `if title_relevance >= threshold` of analyze_job
TitlePasses(score, prefs) == score >= TitleMatchStrictness(prefs)

\* is_relevant of _handle_skipped_analysis (always False) ...
SkippedIsRelevantByThreshold(score, prefs) == score >= RelevanceThreshold(prefs)

SkippedIsRelevant(score, prefs) == FALSE

\* ... and of _handle_full_analysis
FullIsRelevant(score, prefs) == score >= RelevanceThreshold(prefs)

\* _update_job_states: the classification state
ClassificationState(score, prefs) ==
    IF score >= RelevanceThreshold(prefs) THEN "relevant" ELSE "irrelevant"

\* analyze_job(job, user_id, analysis_prefs, job_titles, store_results) is
\* entered: the title strategy is about to call the provider.
JobAnalysisService_analyze_job(j, u, prefs, store) ==
    /\ UNCHANGED restVars
    /\ an.pc \in {"idle", "done"}
    /\ Len(job_states) + 2 <= MaxStateRows
    /\ an' = [pc |-> "title", job_id |-> j, user_id |-> u,
              store_results |-> store, prefs |-> prefs]
    /\ titleRun' = StartedRun
    /\ descRun' = IdleRun
    /\ result' = NoResult
    /\ UNCHANGED <<batch, reanalysis>>
    /\ UNCHANGED <<dbVars, scrVars, schVars>>

\* The tail of _handle_full_analysis / _handle_skipped_analysis once the
\* score is known: _store_analysis_and_update_state (when store_results and a
\* user id are given), then the result.  add_job_analysis raises on the foreign
\* key when the listing is gone, and analyze_job then returns its error result.
\* The clock may advance between the two state appends.
FinishAnalysis(score, is_relevant, skip_reason) ==
    \/ /\ ~an.store_results
       /\ result' = AnalysisResult(an.job_id, score, is_relevant, skip_reason)
       /\ UNCHANGED dbVars
    \/ /\ an.store_results
       /\ an.job_id \notin job_listings
       /\ result' = ErrorResult(an.job_id, "IntegrityError")
       /\ UNCHANGED dbVars
    \/ /\ an.store_results
       /\ an.job_id \in job_listings
       /\ \E t1 \in {clock, clock + 1}, d \in {0, 1} :
            /\ t1 <= MaxClock /\ t1 + d <= MaxClock
            /\ job_analysis' =
                 InsertOrReplaceAnalysis(job_analysis, an.job_id, an.user_id, score)
            /\ job_states' =
                 InsertState(
                    InsertState(job_states, an.job_id, an.user_id, "analyzed", t1),
                    an.job_id, an.user_id, ClassificationState(score, an.prefs),
                    t1 + d)
            /\ clock' = t1 + d
       /\ result' = AnalysisResult(an.job_id, score, is_relevant, skip_reason)
       /\ UNCHANGED <<job_listings, lastCall>>

\* One provider call of the title strategy and what analyze_job does with its
\* outcome.
TitleAttempt(o) ==
    /\ UNCHANGED restVars
    /\ an.pc = "title"
    /\ UNCHANGED <<batch, reanalysis, scrVars, schVars>>
    /\ LET run == StrategyAttempt(titleRun, o)
       IN  /\ titleRun' = run
           /\ CASE run.status = "running" ->
                    UNCHANGED <<an, descRun, result, dbVars>>
                [] run.status = "raised" ->
                    /\ an' = [an EXCEPT !.pc = "done"]
                    /\ result' = ErrorResult(an.job_id, "ValueError")
                    /\ UNCHANGED <<descRun, dbVars>>
                [] run.status = "returned" /\ TitlePasses(run.score, an.prefs) ->
                    /\ an' = [an EXCEPT !.pc = "desc"]
                    /\ descRun' = StartedRun
                    /\ UNCHANGED <<result, dbVars>>
                [] OTHER ->
                    /\ an' = [an EXCEPT !.pc = "done"]
                    /\ FinishAnalysis(run.score,
                                      SkippedIsRelevant(run.score, an.prefs),
                                      "Title not relevant")
                    /\ UNCHANGED descRun

\* One provider call of the description strategy and what analyze_job does
\* with its outcome.
DescAttempt(o) ==
    /\ UNCHANGED restVars
    /\ an.pc = "desc"
    /\ UNCHANGED <<batch, reanalysis, scrVars, schVars>>
    /\ LET run == StrategyAttempt(descRun, o)
       IN  /\ descRun' = run
           /\ CASE run.status = "running" ->
                    UNCHANGED <<an, titleRun, result, dbVars>>
                [] run.status = "raised" ->
                    /\ an' = [an EXCEPT !.pc = "done"]
                    /\ result' = ErrorResult(an.job_id, "ValueError")
                    /\ UNCHANGED <<titleRun, dbVars>>
                [] OTHER ->
                    /\ an' = [an EXCEPT !.pc = "done"]
                    /\ FinishAnalysis(run.score,
                                      FullIsRelevant(run.score, an.prefs), "none")
                    /\ UNCHANGED titleRun

----------------------------------------------------------------------------
(* services/job_analysis_service.py: analyze_queued_jobs and reanalyze_job *)

\* The preferences _get_user_preferences finds: the relevance threshold is
\* set (to 1.0) or absent.
QueuePrefInputs ==
    {[title_match_strictness |-> Missing, relevance_threshold |-> t] :
        t \in {Missing, 10}}

\* The limits the callers pass.
Limits == {1, 2}

\* What the provider does during a batch or a reanalysis: it raises a
\* ValueError or returns an object scoring 0.9 or 0.5.
QueueOutcomes ==
    {o \in ProviderOutcomes :
        \/ o.kind = "raise" /\ o.class = "ValueError"
        \/ o.kind = "text" /\ o.text \in {<<"{", "K9", "}">>, <<"{", "K5", "}">>}}

\* results = {"total": len(queued), "analyzed": 0, ...}
NewResults(total) ==
    [total |-> total, analyzed |-> 0, relevant |-> 0, not_relevant |-> 0,
     errors |-> 0, skipped |-> 0]

\* events are the callback's invocations; handled tells for each posting of
\* the queue, in turn, which path _process_queued_job took and whether
\* something failed on it.
IdleBatch ==
    [pc |-> "idle", user_id |-> 0, callback |-> 0, queued |-> <<>>,
     prefs |-> [title_match_strictness |-> Missing, relevance_threshold |-> Missing],
     results |-> NewResults(0), events |-> <<>>, handled |-> <<>>]

IdleReanalysis ==
    [pc |-> "idle", job_id |-> "none", user_id |-> 0, status |-> "none",
     failed |-> FALSE]

\* callback(kind, ...) `if callback`
Event(b, kind, j) ==
    IF b.callback # 0 THEN Append(b.events, [kind |-> kind, job_id |-> j])
    ELSE b.events

Handled(j, path, failed) == [job_id |-> j, path |-> path, failed |-> failed]

\* What get_jobs_by_state(user_id, queued_for_analysis, limit) can return:
\* the postings whose newest state is queued_for_analysis, newest first, cut
\* at the limit.
QueuedLists(u, limit) ==
    LET S == get_jobs_by_state(job_listings, job_states, u, "queued_for_analysis")
        n == IF Cardinality(S) < limit THEN Cardinality(S) ELSE limit
        ts(j) == MaxTimestamp(job_states, j, u)
    IN  {q \in [1..n -> S] :
            /\ \A i \in 1..n : \A k \in 1..n : i < k =>
                    q[i] # q[k] /\ ts(q[i]) >= ts(q[k])
            /\ \A j \in S \ Range(q) : \A i \in 1..n : ts(q[i]) >= ts(j)}

\* The arguments of the analyze_job call made for a queued or reanalyzed
\* posting: store_results=True.
StoringCall(j, u, prefs) ==
    [pc |-> "title", job_id |-> j, user_id |-> u, store_results |-> TRUE,
     prefs |-> prefs]

\* analyze_queued_jobs(user_id, limit, callback) is entered: the queue is
\* fetched, the tallies are set up, "start" is reported and the preferences
\* are read.
JobAnalysisService_analyze_queued_jobs(u, limit, cb, prefs) ==
    /\ UNCHANGED restVars
    /\ batch.pc = "idle"
    /\ reanalysis.pc = "idle"
    /\ an.pc \in {"idle", "done"}
    /\ \E q \in QueuedLists(u, limit) :
         batch' = [IdleBatch EXCEPT
                      !.pc = "loop", !.user_id = u, !.callback = cb,
                      !.queued = q, !.prefs = prefs,
                      !.results = NewResults(Len(q)),
                      !.events = IF cb # 0
                                 THEN <<[kind |-> "start", job_id |-> "none"]>>
                                 ELSE <<>>]
    /\ UNCHANGED <<an, titleRun, descRun, result, reanalysis>>
    /\ UNCHANGED <<dbVars, scrVars, schVars>>

\* _update_analysis_results
UpdateAnalysisResults(results, analysis) ==
    [results EXCEPT !.analyzed = @ + 1,
                    !.relevant = IF analysis.is_relevant THEN @ + 1 ELSE @,
                    !.not_relevant = IF analysis.is_relevant THEN @ ELSE @ + 1]

\* The tallies of _handle_already_analyzed_job ...
AlreadyAnalyzedResultsSkippedOnly(results, state) ==
    [results EXCEPT !.skipped = @ + 1]

AlreadyAnalyzedResults(results, state) ==
    [results EXCEPT !.analyzed = @ + 1, !.skipped = @ + 1,
                    !.relevant = IF state = "relevant" THEN @ + 1 ELSE @,
                    !.not_relevant = IF state = "relevant" THEN @ ELSE @ + 1]

\* _process_queued_job for the next posting of the queue, up to the call of
\* analyze_job:
\*   - with an analysis row, _handle_already_analyzed_job appends analyzed and
\*     the classification of the stored score and counts the posting;
\*   - without one, analyzing is appended and reported, and analyze_job is
\*     entered;
\*   - add_job_state raises on the foreign key when the listing is gone, and
\*     the except branch counts and reports the error.
JobAnalysisService_process_queued_job ==
    /\ UNCHANGED restVars
    /\ batch.pc = "loop"
    /\ batch.queued # <<>>
    /\ LET j == Head(batch.queued)
           u == batch.user_id
           existing == get_job_analysis(job_analysis, j, u)
       IN  IF j \notin job_listings
           THEN /\ batch' = [batch EXCEPT
                               !.queued = Tail(@),
                               !.results.errors = @ + 1,
                               !.events = Event(batch, "error", j),
                               !.handled = Append(@, Handled(j, "error", TRUE))]
                /\ UNCHANGED <<an, titleRun, descRun, result, dbVars>>
           ELSE IF existing # {}
           THEN LET score == (CHOOSE a \in existing : TRUE).relevance_score
                    state == ClassificationState(score, batch.prefs)
                IN  /\ \E times \in ClockReadings(2) :
                         /\ job_states' = AppendStates(job_states, j, u,
                                                       <<"analyzed", state>>, times)
                         /\ clock' = times[2]
                    /\ batch' = [batch EXCEPT
                                   !.queued = Tail(@),
                                   !.results = AlreadyAnalyzedResults(@, state),
                                   !.handled = Append(@, Handled(j, "already_analyzed", FALSE))]
                    /\ UNCHANGED <<an, titleRun, descRun, result>>
                    /\ UNCHANGED <<job_listings, job_analysis, lastCall>>
           ELSE /\ \E times \in ClockReadings(1) :
                     /\ job_states' = AppendStates(job_states, j, u, <<"analyzing">>, times)
                     /\ clock' = times[1]
                /\ batch' = [batch EXCEPT !.pc = "job",
                                          !.events = Event(batch, "analyzing", j)]
                /\ an' = StoringCall(j, u, batch.prefs)
                /\ titleRun' = StartedRun
                /\ descRun' = IdleRun
                /\ result' = NoResult
                /\ UNCHANGED <<job_listings, job_analysis, lastCall>>
    /\ UNCHANGED reanalysis
    /\ UNCHANGED <<scrVars, schVars>>

\* _process_queued_job after analyze_job returned: the result is tallied by
\* _update_analysis_results and reported as "analyzed".
JobAnalysisService_update_analysis_results ==
    /\ UNCHANGED restVars
    /\ batch.pc = "job"
    /\ an.pc = "done"
    /\ LET j == Head(batch.queued)
       IN  batch' = [batch EXCEPT
                        !.pc = "loop",
                        !.queued = Tail(@),
                        !.results = UpdateAnalysisResults(@, result),
                        !.events = Event(batch, "analyzed", j),
                        !.handled = Append(@, Handled(j, "analyzed",
                                                      result.status = "error"))]
    /\ UNCHANGED <<an, titleRun, descRun, result, reanalysis>>
    /\ UNCHANGED <<dbVars, scrVars, schVars>>

\* analyze_queued_jobs after the loop: "complete" is reported and the tallies
\* are returned.
JobAnalysisService_analyze_queued_jobs_return ==
    /\ UNCHANGED restVars
    /\ batch.pc = "loop"
    /\ batch.queued = <<>>
    /\ batch' = [batch EXCEPT !.pc = "done",
                              !.events = Event(batch, "complete", "none")]
    /\ UNCHANGED <<an, titleRun, descRun, result, reanalysis>>
    /\ UNCHANGED <<dbVars, scrVars, schVars>>

\* reanalyze_job(job_id, user_id) is entered: _get_job_by_id_or_raise raises
\* ValueError for an unknown job, ahead of the try block; else analyzing is
\* appended and analyze_job is entered.
JobAnalysisService_reanalyze_job(j, u, prefs) ==
    /\ UNCHANGED restVars
    /\ reanalysis.pc = "idle"
    /\ batch.pc = "idle"
    /\ an.pc \in {"idle", "done"}
    /\ IF j \notin job_listings
       THEN /\ reanalysis' = [IdleReanalysis EXCEPT !.pc = "raised", !.job_id = j,
                                                    !.user_id = u, !.failed = TRUE]
            /\ UNCHANGED <<an, titleRun, descRun, result, dbVars>>
       ELSE /\ \E times \in ClockReadings(1) :
                 /\ job_states' = AppendStates(job_states, j, u, <<"analyzing">>, times)
                 /\ clock' = times[1]
            /\ reanalysis' = [IdleReanalysis EXCEPT !.pc = "running", !.job_id = j,
                                                    !.user_id = u]
            /\ an' = StoringCall(j, u, prefs)
            /\ titleRun' = StartedRun
            /\ descRun' = IdleRun
            /\ result' = NoResult
            /\ UNCHANGED <<job_listings, job_analysis, lastCall>>
    /\ UNCHANGED batch
    /\ UNCHANGED <<scrVars, schVars>>

\* reanalyze_job after analyze_job returned: result["status"] = "success",
\* whatever the result was.
JobAnalysisService_reanalyze_job_return ==
    /\ UNCHANGED restVars
    /\ reanalysis.pc = "running"
    /\ an.pc = "done"
    /\ reanalysis' = [reanalysis EXCEPT !.pc = "returned", !.status = "success",
                                        !.failed = (result.status = "error")]
    /\ result' = [result EXCEPT !.status = "success"]
    /\ UNCHANGED <<an, titleRun, descRun, batch>>
    /\ UNCHANGED <<dbVars, scrVars, schVars>>

InitAnalysisVars ==
    /\ an = IdleCall
    /\ titleRun = IdleRun
    /\ descRun = IdleRun
    /\ result = NoResult
    /\ batch = IdleBatch
    /\ reanalysis = IdleReanalysis

----------------------------------------------------------------------------
(* services/scraper_service.py: the scraping session *)

MaxDeliveries == 3     \* posting events delivered during one scrape call
MaxSessions == 2       \* scraper sessions (queries) of one scrape call

\* A callback is named by a number; 0 is None, as is user id 0.
Callbacks == {0, 1}

\* The instance fields of ScraperService after __init__; session counts the
\* sessions of the current scrape call.  An empty allow-list is no allow-list
\* (`if self.allowed_job_ids and ...`).
InitialScraper ==
    [current_user_id |-> 0, callback |-> 0, current_jobs |-> {},
     allowed_job_ids |-> {}, session |-> 1]

\* What the scraper did during the current scrape call, in order.
LogData(j, sc, fresh, accepted) ==
    [kind |-> "data", job_id |-> j, session |-> sc.session,
     user_id |-> sc.current_user_id, callback |-> sc.callback,
     state |-> "none", fresh |-> fresh, accepted |-> accepted]

LogState(j, sc, st) ==
    [kind |-> "state", job_id |-> j, session |-> sc.session,
     user_id |-> sc.current_user_id, callback |-> sc.callback,
     state |-> st, fresh |-> FALSE, accepted |-> TRUE]

LogCallback(j, sc) ==
    [kind |-> "job_found", job_id |-> j, session |-> sc.session,
     user_id |-> sc.current_user_id, callback |-> sc.callback,
     state |-> "none", fresh |-> FALSE, accepted |-> TRUE]

DeliveriesLogged == Cardinality({i \in DOMAIN scrLog : scrLog[i].kind = "data"})

\* The states after which a rediscovered posting is left alone.
PostAnalysisStates ==
    {"analyzed", "relevant", "irrelevant", "viewed", "saved", "applied", "rejected"}

\* The states _handle_data appends for the posting: for an unknown listing or
\* a user without state the initial pair, for a state before analysis one
\* more queued_for_analysis, else nothing.
StatesToAppend(known, current) ==
    IF ~known \/ current = "none"
    THEN <<"new_scraped", "queued_for_analysis">>
    ELSE IF current \notin PostAnalysisStates
    THEN <<"queued_for_analysis">>
    ELSE <<>>

\* The current state _handle_data reads: one of the newest rows, or none.
CurrentStateChoices(j, u) ==
    IF PairRows(job_states, j, u) = <<>> THEN {"none"}
    ELSE {r.state : r \in get_current_job_state(job_states, j, u)}

\* `if data.job_id in self.current_jobs: return` ...
SeenThisRunNever(sc, j) == FALSE

SeenThisRun(sc, j) == j \in sc.current_jobs

\* _handle_data passes its first two guards.
Accepted(sc, j) ==
    /\ sc.current_user_id # 0
    /\ (sc.allowed_job_ids # {} => j \in sc.allowed_job_ids)

\* _handle_data(data): the posting data.job_id is delivered.
ScraperService_handle_data(j) ==
    /\ UNCHANGED restVars
    /\ DeliveriesLogged < MaxDeliveries
    /\ IF ~Accepted(scraper, j) \/ SeenThisRun(scraper, j)
       THEN /\ scrLog' = Append(scrLog, LogData(j, scraper,
                                  PairRows(job_states, j, scraper.current_user_id) = <<>>,
                                  Accepted(scraper, j)))
            /\ UNCHANGED <<scraper, dbVars>>
       ELSE \E current \in CurrentStateChoices(j, scraper.current_user_id) :
            LET u == scraper.current_user_id
                sts == StatesToAppend(j \in job_listings, current)
            IN  /\ Len(job_states) + Len(sts) <= MaxStateRows
                /\ \E times \in ClockReadings(Len(sts)) :
                     /\ job_states' = AppendStates(job_states, j, u, sts, times)
                     /\ clock' = IF sts = <<>> THEN clock ELSE times[Len(sts)]
                /\ job_listings' = job_listings \cup {j}
                /\ lastCall' = NoCall
                /\ scraper' = [scraper EXCEPT !.current_jobs = @ \cup {j}]
                /\ scrLog' =
                     scrLog
                       \o <<LogData(j, scraper, PairRows(job_states, j, u) = <<>>, TRUE)>>
                       \o [i \in 1..Len(sts) |-> LogState(j, scraper, sts[i])]
                       \o (IF scraper.callback # 0
                           THEN <<LogCallback(j, scraper)>> ELSE <<>>)
                /\ UNCHANGED job_analysis
    /\ UNCHANGED <<anVars, schVars>>

\* _handle_end(): the session is over; the seen-set and the allow-list are
\* reset.
ScraperService_handle_end ==
    /\ UNCHANGED restVars
    /\ scraper.session < MaxSessions
    /\ scraper' = [scraper EXCEPT !.current_jobs = {}, !.allowed_job_ids = {},
                                  !.session = @ + 1]
    /\ UNCHANGED <<scrLog, dbVars, anVars, schVars>>

\* scrape_jobs(user_id, callback) is entered: user, callback and seen-set are
\* set; the allow-list is left as it is.
ScraperService_scrape_jobs(u, cb) ==
    /\ UNCHANGED restVars
    /\ scraper' = [scraper EXCEPT !.current_user_id = u, !.callback = cb,
                                  !.current_jobs = {}, !.session = 1]
    /\ scrLog' = <<>>
    /\ UNCHANGED <<dbVars, anVars, schVars>>

\* scrape_company_jobs(url, user_id, job_ids, callback) is entered: as above,
\* and a non-empty job_ids becomes the allow-list.
ScraperService_scrape_company_jobs(u, ids, cb) ==
    /\ UNCHANGED restVars
    /\ scraper' = [scraper EXCEPT !.current_user_id = u, !.callback = cb,
                                  !.current_jobs = {}, !.session = 1,
                                  !.allowed_job_ids = IF ids # {} THEN ids ELSE @]
    /\ scrLog' = <<>>
    /\ UNCHANGED <<dbVars, anVars, schVars>>

InitScraperVars ==
    /\ scraper = InitialScraper
    /\ scrLog = <<>>

----------------------------------------------------------------------------
(* services/scheduler_service.py: job status tracking and the workflow *)

\* The workflow threads; w1 is the one started first.
Workers == {"w1", "w2"}

StartedBefore(w) == IF w = "w2" THEN {"w1"} ELSE {}
JobTypes == {"manual", "scheduled"}

\* f"manual_{user_id}_{int(time.time())}", f"scheduled_{user_id}_{...}"
JobId(type, u, now) == <<type, u, now>>

\* The users whose workflows run.
SchedulerUsers == {1}

JobIds == JobTypes \X SchedulerUsers \X (0..MaxClock)

NoJob == <<"none", 0, 0>>

EmptyMap == [k \in {} |-> 0]

\* d[k] = v
Put(d, k, v) == [x \in DOMAIN d \cup {k} |-> IF x = k THEN v ELSE d[x]]

\* del d[k]
Del(d, k) == [x \in DOMAIN d \ {k} |-> d[x]]

\* The status dictionaries the workflow passes to _set_job_status; times are
\* kept as stamped or not, steps as the set of step names, the result as the
\* set of sub-results attached.
RunningStatus(u, type) ==
    [status |-> "running", user_id |-> u, type |-> type, start_time |-> TRUE,
     end_time |-> FALSE, steps |-> {}, result |-> {}, error |-> FALSE]

CompletedStatus(u, type, steps) ==
    [status |-> "completed", user_id |-> u, type |-> type, start_time |-> TRUE,
     end_time |-> TRUE, steps |-> steps, result |-> {"scraping", "analyzing"},
     error |-> FALSE]

FailedStatus(u, type) ==
    [status |-> "failed", user_id |-> u, type |-> type, start_time |-> TRUE,
     end_time |-> TRUE, steps |-> {}, result |-> {}, error |-> TRUE]

\* A workflow thread: pc is the call of the workflow it is in, sub the step of
\* that call; recorded lists the statuses its run has set; steps is the value
\* the last _update_job_status returned.
IdleWorker ==
    [pc |-> "idle", sub |-> "none", job_id |-> NoJob, user_id |-> 0,
     type |-> "none", recorded |-> <<>>, steps |-> {},
     updated_last_run |-> FALSE]

\* The request thread of cancel_job (one cancel request is followed): the call
\* it is in or has made, whether the job was tracked and had a callback when
\* the call looked, whether the call invoked the callback, and how the call
\* ended ("True", "False", "KeyError", or "none").
IdleCanceller ==
    [pc |-> "idle", job_id |-> NoJob, tracked |-> FALSE, had_callback |-> FALSE,
     invoked |-> FALSE, result |-> "none"]

\* One access to a map or one callback invocation, and whether the thread
\* held status_lock at that moment (the job id is not kept).
Access(op, id, held) == [op |-> op, lock_held |-> held]

\* What the callbacks have been told so far.
NoneNotified == [terminal |-> {}, again |-> {}]

\* The callback of job id is called; terminal says whether the record passed
\* has status completed or failed.
Notify(n, id, terminal) ==
    [terminal |-> n.terminal \cup (IF terminal THEN {id} ELSE {}),
     again |-> n.again \cup (IF id \in n.terminal THEN {id} ELSE {})]

\* The status a worker's current _set_job_status call sets.
StatusToSet(w) ==
    CASE workers[w].pc = "set_running" ->
            RunningStatus(workers[w].user_id, workers[w].type)
      [] workers[w].pc = "set_completed" ->
            CompletedStatus(workers[w].user_id, workers[w].type, workers[w].steps)
      [] OTHER ->
            FailedStatus(workers[w].user_id, workers[w].type)

\* Where the workflow goes after a call returned.
AfterCall(pc) ==
    CASE pc = "set_running" -> "scrape"
      [] pc = "scrape_update" -> "analyze"
      [] pc = "analyze_update" -> "steps_update"
      [] pc = "steps_update" -> "set_completed"
      [] pc = "set_completed" -> "update_last_run"
      [] OTHER -> "done"

FirstStep(pc) ==
    IF pc \in {"set_running", "set_completed", "set_failed", "scrape_update",
               "analyze_update", "steps_update"}
    THEN "write" ELSE "none"

\* The call returns.
Return(wk) ==
    [wk EXCEPT !.pc = AfterCall(wk.pc), !.sub = FirstStep(AfterCall(wk.pc))]

\* The call raises: inside the try block the except handler takes over and
\* sets the failed status; inside the handler the thread dies.
Raise(wk) ==
    IF wk.pc = "set_failed"
    THEN [wk EXCEPT !.pc = "crashed", !.sub = "none"]
    ELSE [wk EXCEPT !.pc = "set_failed", !.sub = "write"]

\* run_job_now(user_id, callback): the job id is made from the user and the
\* second time.time() shows (now, not before the last reading), the callback
\* (if any) is put into self.callbacks, and the workflow thread is started.
SchedulerService_run_job_now(w, u, withCallback, now) ==
    /\ UNCHANGED restVars
    /\ workers[w].pc = "idle"
    /\ \A v \in StartedBefore(w) : workers[v].pc # "idle"
    /\ now >= clock
    /\ clock' = now
    /\ LET id == JobId("manual", u, now)
       IN  /\ workers' = [workers EXCEPT ![w] =
                  [IdleWorker EXCEPT !.pc = "set_running", !.sub = "write",
                                     !.job_id = id, !.user_id = u, !.type = "manual"]]
           /\ IF withCallback
              THEN /\ callbacks' = Put(callbacks, id, w)
                   /\ schedLog' = schedLog \cup
                          {Access("register", id, FALSE)}
              ELSE UNCHANGED <<callbacks, schedLog>>
    /\ UNCHANGED <<running_jobs, status_lock, canceller, schedule_settings, notified>>
    /\ UNCHANGED <<job_listings, job_states, job_analysis, lastCall>>
    /\ UNCHANGED <<anVars, scrVars>>

\* _run_scheduled_job(user_id) is fired by the scheduler thread.
SchedulerService_run_scheduled_job(w, u, now) ==
    /\ UNCHANGED restVars
    /\ workers[w].pc = "idle"
    /\ \A v \in StartedBefore(w) : workers[v].pc # "idle"
    /\ now >= clock
    /\ clock' = now
    /\ workers' = [workers EXCEPT ![w] =
          [IdleWorker EXCEPT !.pc = "set_running", !.sub = "write",
                             !.job_id = JobId("scheduled", u, now),
                             !.user_id = u, !.type = "scheduled"]]
    /\ UNCHANGED <<running_jobs, callbacks, status_lock, canceller,
                   schedule_settings, schedLog, notified>>
    /\ UNCHANGED <<job_listings, job_states, job_analysis, lastCall>>
    /\ UNCHANGED <<anVars, scrVars>>

\* _set_job_status, `with self.status_lock: self.running_jobs[job_id] = status`
SetJobStatus_Write(w) ==
    /\ UNCHANGED restVars
    /\ workers[w].pc \in {"set_running", "set_completed", "set_failed"}
    /\ workers[w].sub = "write"
    /\ status_lock = "free"
    /\ running_jobs' = Put(running_jobs, workers[w].job_id, StatusToSet(w))
    /\ workers' = [workers EXCEPT ![w].sub = "callback",
                                  ![w].recorded = Append(@, StatusToSet(w))]
    /\ schedLog' = schedLog \cup {Access("write_status", workers[w].job_id, TRUE)}
    /\ UNCHANGED <<callbacks, status_lock, canceller, schedule_settings, notified>>
    /\ UNCHANGED <<dbVars, anVars, scrVars>>

\* _set_job_status, `if job_id in self.callbacks:` and the call of the
\* callback inside its try; a callback gone since the test is a caught
\* KeyError.  Without a callback the call returns.
SetJobStatus_Callback(w) ==
    /\ UNCHANGED restVars
    /\ workers[w].pc \in {"set_running", "set_completed", "set_failed"}
    /\ workers[w].sub = "callback"
    /\ LET id == workers[w].job_id
           held == status_lock = w
       IN  IF id \in DOMAIN callbacks
           THEN /\ schedLog' = schedLog \cup
                      {Access("lookup", id, held), Access("invoke_status", id, held)}
                /\ notified' = Notify(notified, id,
                                      StatusToSet(w).status \in {"completed", "failed"})
                /\ workers' = [workers EXCEPT ![w] =
                      IF StatusToSet(w).status \in {"completed", "failed"}
                      THEN [@ EXCEPT !.sub = "del"] ELSE Return(@)]
           ELSE /\ schedLog' = schedLog \cup {Access("lookup", id, held)}
                /\ workers' = [workers EXCEPT ![w] = Return(@)]
                /\ UNCHANGED notified
    /\ UNCHANGED <<running_jobs, callbacks, status_lock, canceller, schedule_settings>>
    /\ UNCHANGED <<dbVars, anVars, scrVars>>

\* _set_job_status, `del self.callbacks[job_id]` for a completed or failed
\* status: a KeyError when the entry is gone.
SetJobStatus_Del(w) ==
    /\ UNCHANGED restVars
    /\ workers[w].pc \in {"set_completed", "set_failed"}
    /\ workers[w].sub = "del"
    /\ LET id == workers[w].job_id
           held == status_lock = w
       IN  IF id \in DOMAIN callbacks
           THEN /\ callbacks' = Del(callbacks, id)
                /\ schedLog' = schedLog \cup {Access("remove", id, held)}
                /\ workers' = [workers EXCEPT ![w] = Return(@)]
           ELSE /\ schedLog' = schedLog \cup {Access("KeyError", id, held)}
                /\ workers' = [workers EXCEPT ![w] = Raise(@)]
                /\ UNCHANGED callbacks
    /\ UNCHANGED <<running_jobs, status_lock, canceller, schedule_settings, notified>>
    /\ UNCHANGED <<dbVars, anVars, scrVars>>

\* The step a worker's current _update_job_status call reports.
StepName(pc) == IF pc = "scrape_update" THEN "scraping" ELSE "analyzing"

\* _update_job_status, the block under status_lock: the event is added to
\* the step of the status record, if the job has one, and the steps are
\* copied for the caller.
UpdateJobStatus_Write(w) ==
    /\ UNCHANGED restVars
    /\ workers[w].pc \in {"scrape_update", "analyze_update", "steps_update"}
    /\ workers[w].sub = "write"
    /\ status_lock = "free"
    /\ LET id == workers[w].job_id
       IN  IF id \in DOMAIN running_jobs
           THEN LET steps == running_jobs[id].steps \cup {StepName(workers[w].pc)}
                IN  /\ running_jobs' = [running_jobs EXCEPT ![id].steps = steps]
                    /\ workers' = [workers EXCEPT ![w].sub = "callback",
                                                  ![w].steps = steps]
           ELSE /\ workers' = [workers EXCEPT ![w].sub = "callback",
                                              ![w].steps = {}]
                /\ UNCHANGED running_jobs
    /\ schedLog' = schedLog \cup {Access("update_status", workers[w].job_id, TRUE)}
    /\ UNCHANGED <<callbacks, status_lock, canceller, schedule_settings, notified>>
    /\ UNCHANGED <<dbVars, anVars, scrVars>>

\* _update_job_status, after the lock is released: the callback, if one is
\* registered, is called with the step event.
UpdateJobStatus_Callback(w) ==
    /\ UNCHANGED restVars
    /\ workers[w].pc \in {"scrape_update", "analyze_update", "steps_update"}
    /\ workers[w].sub = "callback"
    /\ LET id == workers[w].job_id
           held == status_lock = w
       IN  /\ schedLog' = schedLog \cup
                 (IF id \in DOMAIN callbacks
                  THEN {Access("lookup", id, held), Access("invoke_step", id, held)}
                  ELSE {Access("lookup", id, held)})
           /\ notified' = IF id \in DOMAIN callbacks
                          THEN Notify(notified, id, FALSE) ELSE notified
    /\ workers' = [workers EXCEPT ![w] = Return(@)]
    /\ UNCHANGED <<running_jobs, callbacks, status_lock, canceller, schedule_settings>>
    /\ UNCHANGED <<dbVars, anVars, scrVars>>

\* DatabaseService.update_last_run: UPDATE schedule_settings SET last_run = now
\* WHERE user_id = ?
update_last_run(settings, u, now) ==
    IF u \in DOMAIN settings THEN [settings EXCEPT ![u] = now] ELSE settings

\* How a scrape_jobs call can end:
\*   success, error_in_try  - a result is returned, the finally block has
\*                            updated last_run;
\*   not_initialized        - the error result of a scraper that cannot be
\*                            initialized, returned before the try block;
\*   raised_before_try      - the preference lookups or the experience-level
\*                            mapping ahead of the try block raised;
\*   raised_in_finally      - update_last_run raised in the finally block.
ScrapeOutcomes ==
    {"success", "error_in_try", "not_initialized", "raised_before_try",
     "raised_in_finally"}

\* Step 1 of the workflow: scraper_service.scrape_jobs(user_id, lambda ...).
Workflow_scrape_jobs(w, o) ==
    /\ UNCHANGED restVars
    /\ workers[w].pc = "scrape"
    /\ scraper' = [scraper EXCEPT !.current_user_id = workers[w].user_id,
                                  !.callback = 1, !.current_jobs = {},
                                  !.session = 1]
    /\ scrLog' = <<>>
    /\ IF o \in {"success", "error_in_try"}
       THEN /\ schedule_settings' =
                  update_last_run(schedule_settings, workers[w].user_id, clock)
            /\ workers' = [workers EXCEPT ![w] =
                  [@ EXCEPT !.pc = "scrape_update", !.sub = "write",
                            !.updated_last_run =
                                @ \/ workers[w].user_id \in DOMAIN schedule_settings]]
       ELSE /\ UNCHANGED schedule_settings
            /\ workers' = [workers EXCEPT ![w] =
                  IF o = "not_initialized"
                  THEN [@ EXCEPT !.pc = "scrape_update", !.sub = "write"]
                  ELSE Raise(@)]
    /\ UNCHANGED <<running_jobs, callbacks, status_lock, canceller, schedLog, notified>>
    /\ UNCHANGED <<dbVars, anVars>>

\* Step 2 of the workflow: analysis_service.analyze_queued_jobs(user_id, 50,
\* lambda ...) returns its result or raises.  The postings it stores are the
\* subject of the analysis specification.
Workflow_analyze_queued_jobs(w, raises) ==
    /\ UNCHANGED restVars
    /\ workers[w].pc = "analyze"
    /\ workers' = [workers EXCEPT ![w] =
          IF raises THEN Raise(@)
          ELSE [@ EXCEPT !.pc = "analyze_update", !.sub = "write"]]
    /\ UNCHANGED <<running_jobs, callbacks, status_lock, canceller,
                   schedule_settings, schedLog, notified>>
    /\ UNCHANGED <<dbVars, anVars, scrVars>>

\* The last statement of the try block: self.db_service.update_last_run(user_id),
\* which can raise like any write to the database.
Workflow_update_last_run(w, raises) ==
    /\ UNCHANGED restVars
    /\ workers[w].pc = "update_last_run"
    /\ IF raises
       THEN /\ workers' = [workers EXCEPT ![w] = Raise(@)]
            /\ UNCHANGED schedule_settings
       ELSE /\ schedule_settings' =
                  update_last_run(schedule_settings, workers[w].user_id, clock)
            /\ workers' = [workers EXCEPT ![w] =
                  [@ EXCEPT !.pc = "done", !.sub = "none",
                            !.updated_last_run =
                                @ \/ workers[w].user_id \in DOMAIN schedule_settings]]
    /\ UNCHANGED <<running_jobs, callbacks, status_lock, canceller, schedLog, notified>>
    /\ UNCHANGED <<dbVars, anVars, scrVars>>

\* cancel_job(job_id) takes status_lock; an unknown job returns False, a job
\* without callback is marked canceled and returns True, and for a job with a
\* callback the lock stays held for the steps that follow.
SchedulerService_cancel_job(id) ==
    /\ UNCHANGED restVars
    /\ canceller.pc = "idle"
    /\ status_lock = "free"
    /\ IF id \notin DOMAIN running_jobs
       THEN /\ canceller' = [IdleCanceller EXCEPT !.pc = "returned", !.job_id = id,
                                               !.result = "False"]
            /\ UNCHANGED <<running_jobs, status_lock, schedLog>>
       ELSE /\ running_jobs' = [running_jobs EXCEPT ![id].status = "canceled",
                                                    ![id].end_time = TRUE]
            /\ schedLog' = schedLog \cup {Access("lookup", id, TRUE)}
            /\ IF id \in DOMAIN callbacks
               THEN /\ canceller' = [IdleCanceller EXCEPT !.pc = "callback",
                                        !.job_id = id, !.tracked = TRUE,
                                        !.had_callback = TRUE]
                    /\ status_lock' = "c1"
               ELSE /\ canceller' = [IdleCanceller EXCEPT !.pc = "returned",
                                        !.job_id = id, !.tracked = TRUE,
                                        !.result = "True"]
                    /\ UNCHANGED status_lock
    /\ UNCHANGED <<callbacks, workers, schedule_settings, notified>>
    /\ UNCHANGED <<dbVars, anVars, scrVars>>

\* cancel_job, `self.callbacks[job_id](self.running_jobs[job_id])` inside its
\* try: a KeyError of an entry gone since the test is caught.
CancelJob_Callback ==
    /\ UNCHANGED restVars
    /\ canceller.pc = "callback"
    /\ IF canceller.job_id \in DOMAIN callbacks
       THEN /\ schedLog' = schedLog \cup
                  {Access("invoke_cancel", canceller.job_id, status_lock = "c1")}
            /\ notified' = Notify(notified, canceller.job_id, FALSE)
            /\ canceller' = [canceller EXCEPT !.pc = "del", !.invoked = TRUE]
       ELSE /\ canceller' = [canceller EXCEPT !.pc = "del"]
            /\ UNCHANGED <<schedLog, notified>>
    /\ UNCHANGED <<running_jobs, callbacks, status_lock, workers, schedule_settings>>
    /\ UNCHANGED <<dbVars, anVars, scrVars>>

\* cancel_job, `del self.callbacks[job_id]` and the end of the with block
\* (by `return True` or by the KeyError of an entry that is gone).
CancelJob_Del ==
    /\ UNCHANGED restVars
    /\ canceller.pc = "del"
    /\ IF canceller.job_id \in DOMAIN callbacks
       THEN /\ callbacks' = Del(callbacks, canceller.job_id)
            /\ schedLog' = schedLog \cup
                  {Access("remove", canceller.job_id, status_lock = "c1")}
            /\ canceller' = [canceller EXCEPT !.pc = "returned", !.result = "True"]
       ELSE /\ schedLog' = schedLog \cup
                  {Access("KeyError", canceller.job_id, status_lock = "c1")}
            /\ canceller' = [canceller EXCEPT !.pc = "returned", !.result = "KeyError"]
            /\ UNCHANGED callbacks
    /\ status_lock' = "free"
    /\ UNCHANGED <<running_jobs, workers, schedule_settings, notified>>
    /\ UNCHANGED <<dbVars, anVars, scrVars>>

InitSchedulerVars ==
    /\ running_jobs = EmptyMap
    /\ callbacks = EmptyMap
    /\ status_lock = "free"
    /\ workers = [w \in Workers |-> IdleWorker]
    /\ canceller = IdleCanceller
    /\ schedule_settings = [u \in {1} |-> Missing]
    /\ schedLog = {}
    /\ notified = NoneNotified

----------------------------------------------------------------------------
(* services/scheduler_service.py: update_schedule and _load_schedules;      *)
(* services/database_service.py: update_user_schedule                       *)

\* The threads that load schedules: the scheduler thread ("p1", at its start)
\* and two request threads calling update_schedule.
RequestThreads == {"r1", "r2"}
LoaderThreads == {"p1"} \cup RequestThreads

\* ScheduleSettings.VALID_TYPES
VALID_TYPES == {"daily", "weekly", "custom"}

\* An execution_time string is the sequence of its space-separated words
\* (what execution_time.split(' ') returns).
ValidTimes == {"08:00"}

Weekdays ==
    {"monday", "tuesday", "wednesday", "thursday", "friday", "saturday", "sunday"}

\* str.lower() on the words used
Lower(w) == IF w = "Monday" THEN "monday" ELSE w

\* What update_schedule is called with: type, time and enabled flag.
ScheduleInput(type, time, enabled) ==
    [schedule_type |-> type, execution_time |-> time, enabled |-> enabled]

ScheduleInputs ==
    { ScheduleInput("daily", <<"08:00">>, TRUE),
      ScheduleInput("daily", <<"08:00">>, FALSE),
      ScheduleInput("daily", <<"Monday", "08:00">>, TRUE),     \* no time of day
      ScheduleInput("weekly", <<"Monday", "08:00">>, TRUE),
      ScheduleInput("weekly", <<"Funday", "08:00">>, TRUE),    \* no weekday
      ScheduleInput("weekly", <<"08:00">>, TRUE),              \* one token
      ScheduleInput("custom", <<"interval:2">>, TRUE),
      ScheduleInput("custom", <<"interval:x">>, TRUE),         \* no number
      ScheduleInput("hourly", <<"08:00">>, TRUE) }             \* no valid type

NoTrigger == [user_id |-> 0, unit |-> "none", at |-> "none"]

\* The exception that leaves _load_schedules
Raised == [user_id |-> 0, unit |-> "raise", at |-> "none"]

\* schedule's Job.at(time_str): ScheduleValueError unless it is a time of day
AtRaises(words) == ~(Len(words) = 1 /\ words[1] \in ValidTimes)

\* int(execution_time.split(':')[1]) of "interval:<hours>"
IntervalHours(words) ==
    IF Len(words) = 1 /\ words[1] = "interval:2" THEN 2 ELSE Missing

\* The loop body of _load_schedules for one row: the periodic job it builds,
\* NoTrigger when it builds none (`if job:`), or Raised when the exception
\* leaves _load_schedules: only the weekly and the custom branch are inside a
\* try block.
JobFor(row) ==
    LET t == row.execution_time
    IN  CASE row.schedule_type = "daily" ->
                IF AtRaises(t) THEN Raised
                ELSE [user_id |-> row.user_id, unit |-> "day", at |-> t[1]]
          [] row.schedule_type = "weekly" ->
                IF Len(t) # 2 THEN NoTrigger
                ELSE IF Lower(t[1]) \notin Weekdays THEN NoTrigger
                ELSE IF AtRaises(<<t[2]>>) THEN NoTrigger
                ELSE [user_id |-> row.user_id, unit |-> Lower(t[1]), at |-> t[2]]
          [] row.schedule_type = "custom" ->
                IF IntervalHours(t) = Missing THEN NoTrigger
                ELSE [user_id |-> row.user_id, unit |-> "hours", at |-> "none"]
          [] OTHER -> NoTrigger

IdleLoader ==
    [pc |-> "idle", user_id |-> 0, input |-> ScheduleInput("none", <<>>, FALSE),
     existing |-> FALSE, todo |-> <<>>]

\* get_user_schedule: the user's row, if any
UserRows(rows, u) == {i \in DOMAIN rows : rows[i].user_id = u}

\* get_active_schedules: WHERE s.enabled = 1
ActiveSchedules(rows) == SelectSeq(rows, LAMBDA r : r.enabled)

\* UPDATE schedule_settings SET ... WHERE user_id = ?
UpdateSchedule(rows, u, in) ==
    [i \in DOMAIN rows |->
        IF rows[i].user_id = u
        THEN [rows[i] EXCEPT !.schedule_type = in.schedule_type,
                             !.execution_time = in.execution_time,
                             !.enabled = in.enabled]
        ELSE rows[i]]

\* INSERT INTO schedule_settings (user_id, schedule_type, execution_time, enabled)
InsertSchedule(rows, u, in) ==
    Append(rows, [user_id |-> u, schedule_type |-> in.schedule_type,
                  execution_time |-> in.execution_time, enabled |-> in.enabled])

\* update_schedule(user_id, type, time, enabled) is entered by a request
\* thread; update_user_schedule validates the type (ValueError) and looks the
\* user's row up.
SchedulerService_update_schedule(t, u, in) ==
    /\ loaders[t].pc = "idle"
    /\ loaders' = [loaders EXCEPT ![t] =
          IF in.schedule_type \notin VALID_TYPES
          THEN [IdleLoader EXCEPT !.pc = "rejected", !.user_id = u, !.input = in]
          ELSE [IdleLoader EXCEPT !.pc = "write", !.user_id = u, !.input = in,
                                  !.existing = (UserRows(schedule_rows, u) # {})]]
    /\ UNCHANGED <<schedule_rows, triggers>>
    /\ UNCHANGED ldFrame

\* update_user_schedule writes: UPDATE when the lookup found a row, else
\* INSERT; update_schedule goes on to _load_schedules.
UpdateUserSchedule_Write(t) ==
    /\ loaders[t].pc = "write"
    /\ schedule_rows' =
          IF loaders[t].existing
          THEN UpdateSchedule(schedule_rows, loaders[t].user_id, loaders[t].input)
          ELSE InsertSchedule(schedule_rows, loaders[t].user_id, loaders[t].input)
    /\ loaders' = [loaders EXCEPT ![t].pc = "clear"]
    /\ UNCHANGED triggers
    /\ UNCHANGED ldFrame

\* _scheduler_loop is entered by the scheduler thread: it loads the schedules.
SchedulerService_scheduler_loop(t) ==
    /\ loaders[t].pc = "idle"
    /\ loaders' = [loaders EXCEPT ![t].pc = "clear"]
    /\ UNCHANGED <<schedule_rows, triggers>>
    /\ UNCHANGED ldFrame

\* _load_schedules: schedule.clear()
LoadSchedules_Clear(t) ==
    /\ loaders[t].pc = "clear"
    /\ triggers' = <<>>
    /\ loaders' = [loaders EXCEPT ![t].pc = "read"]
    /\ UNCHANGED schedule_rows
    /\ UNCHANGED ldFrame

\* _load_schedules: active_schedules = self.db_service.get_active_schedules()
LoadSchedules_Read(t) ==
    /\ loaders[t].pc = "read"
    /\ loaders' = [loaders EXCEPT ![t].pc = "register",
                                  ![t].todo = ActiveSchedules(schedule_rows)]
    /\ UNCHANGED <<schedule_rows, triggers>>
    /\ UNCHANGED ldFrame

\* _load_schedules: one turn of `for sched in active_schedules`, job.do(...)
\* putting the job into schedule.jobs; after the last row the load is done.
LoadSchedules_Register(t) ==
    /\ loaders[t].pc = "register"
    /\ IF loaders[t].todo = <<>>
       THEN /\ loaders' = [loaders EXCEPT ![t].pc = "done"]
            /\ UNCHANGED triggers
       ELSE LET job == JobFor(Head(loaders[t].todo))
            IN  IF job = Raised
                THEN /\ loaders' = [loaders EXCEPT ![t].pc = "raised"]
                     /\ UNCHANGED triggers
                ELSE /\ loaders' = [loaders EXCEPT ![t].todo = Tail(@)]
                     /\ triggers' = IF job = NoTrigger THEN triggers
                                    ELSE Append(triggers, job)
    /\ UNCHANGED schedule_rows
    /\ UNCHANGED ldFrame

InitLoadVars ==
    /\ schedule_rows = <<>>
    /\ triggers = <<>>
    /\ loaders = [t \in LoaderThreads |-> IdleLoader]

----------------------------------------------------------------------------
(* services/scheduler_service.py: start, stop, restart and _scheduler_loop *)

MaxPollThreads == 2    \* poll threads created in one run of the model

PollThreadIds == 1..MaxPollThreads

NoPollThread == [state |-> "none", told |-> FALSE]

\* The calling thread: where it is, and the call it is in or made last
IdleCaller == [pc |-> "idle", call |-> "none"]

\* Thread.is_alive()
IsAlive(threads, t) == threads[t].state \notin {"none", "exited"}

AlivePollThreads(threads) == {t \in PollThreadIds : IsAlive(threads, t)}

\* The body of start(): a new poll thread unless one is alive.
StartPollThread ==
    IF scheduler_thread = 0 \/ ~IsAlive(poll_threads, scheduler_thread)
    THEN /\ \E t \in PollThreadIds : poll_threads[t].state = "none"
         /\ LET t == CHOOSE n \in PollThreadIds :
                        /\ poll_threads[n].state = "none"
                        /\ \A k \in PollThreadIds :
                              poll_threads[k].state = "none" => n <= k
            IN  /\ stop_event' = FALSE
                /\ scheduler_thread' = t
                /\ poll_threads' = [poll_threads EXCEPT ![t].state = "loading"]
    ELSE UNCHANGED <<stop_event, scheduler_thread, poll_threads>>

\* The first half of stop(): set the event when a poll thread is alive and
\* go on to join it; restart() is stop() followed by start().
StopPollThread(restart) ==
    /\ IF scheduler_thread # 0 /\ IsAlive(poll_threads, scheduler_thread)
       THEN /\ stop_event' = TRUE
            /\ caller' = [pc |-> "join",
                          call |-> IF restart THEN "restart" ELSE "stop"]
       ELSE /\ caller' = [pc |-> IF restart THEN "start" ELSE "idle",
                          call |-> IF restart THEN "restart" ELSE "stop"]
            /\ UNCHANGED stop_event
    /\ UNCHANGED <<scheduler_thread, poll_threads>>

SchedulerService_start ==
    /\ caller.pc = "idle"
    /\ StartPollThread
    /\ caller' = [pc |-> "idle", call |-> "start"]
    /\ UNCHANGED lcFrame

SchedulerService_stop ==
    /\ caller.pc = "idle"
    /\ StopPollThread(FALSE)
    /\ UNCHANGED lcFrame

SchedulerService_restart ==
    /\ caller.pc = "idle"
    /\ StopPollThread(TRUE)
    /\ UNCHANGED lcFrame

\* stop(): self.scheduler_thread.join(timeout=5) returns when the poll thread
\* has ended, or after five seconds while the thread is still inside a
\* scheduled job (the scrape and analysis workflow runs on the poll thread);
\* then self.scheduler_thread = None.
SchedulerService_stop_join ==
    /\ caller.pc = "join"
    /\ poll_threads[scheduler_thread].state \in {"exited", "running"}
    /\ poll_threads' = [poll_threads EXCEPT ![scheduler_thread].told = TRUE]
    /\ scheduler_thread' = 0
    /\ caller' = [caller EXCEPT !.pc = IF caller.call = "restart" THEN "start"
                                        ELSE "idle"]
    /\ UNCHANGED stop_event
    /\ UNCHANGED lcFrame

\* restart(): the start() after the stop()
SchedulerService_restart_start ==
    /\ caller.pc = "start"
    /\ StartPollThread
    /\ caller' = [caller EXCEPT !.pc = "idle"]
    /\ UNCHANGED lcFrame

\* _scheduler_loop: self._load_schedules()
SchedulerLoop_Load(t) ==
    /\ poll_threads[t].state = "loading"
    /\ poll_threads' = [poll_threads EXCEPT ![t].state = "check"]
    /\ UNCHANGED <<scheduler_thread, stop_event, caller>>
    /\ UNCHANGED lcFrame

\* _scheduler_loop: while not self.stop_event.is_set()
SchedulerLoop_Check(t) ==
    /\ poll_threads[t].state = "check"
    /\ poll_threads' = [poll_threads EXCEPT ![t].state =
                            IF stop_event THEN "exited" ELSE "run_pending"]
    /\ UNCHANGED <<scheduler_thread, stop_event, caller>>
    /\ UNCHANGED lcFrame

\* _scheduler_loop: schedule.run_pending() with a job due (the thread runs
\* it) or with none
SchedulerLoop_RunPending(t, due) ==
    /\ poll_threads[t].state = "run_pending"
    /\ poll_threads' = [poll_threads EXCEPT ![t].state =
                            IF due THEN "running" ELSE "sleeping"]
    /\ UNCHANGED <<scheduler_thread, stop_event, caller>>
    /\ UNCHANGED lcFrame

\* the scheduled job returns
SchedulerLoop_JobReturns(t) ==
    /\ poll_threads[t].state = "running"
    /\ poll_threads' = [poll_threads EXCEPT ![t].state = "sleeping"]
    /\ UNCHANGED <<scheduler_thread, stop_event, caller>>
    /\ UNCHANGED lcFrame

\* _scheduler_loop: time.sleep(1)
SchedulerLoop_Sleep(t) ==
    /\ poll_threads[t].state = "sleeping"
    /\ poll_threads' = [poll_threads EXCEPT ![t].state = "check"]
    /\ UNCHANGED <<scheduler_thread, stop_event, caller>>
    /\ UNCHANGED lcFrame

InitLifecycleVars ==
    /\ scheduler_thread = 0
    /\ stop_event = FALSE
    /\ poll_threads = [t \in PollThreadIds |-> NoPollThread]
    /\ caller = IdleCaller

----------------------------------------------------------------------------
(* tmp_utils/sql.py: the maintenance script *)

MaintenanceCall == [op |-> "clear_stale_queued_jobs"]

\* DELETE FROM job_states WHERE state = 'queued_for_analysis' AND EXISTS (a row
\* of the same pair in analyzed, relevant or irrelevant with a greater
\* state_timestamp)
IsStaleQueued(rows, r) ==
    /\ r.state = "queued_for_analysis"
    /\ \E newer \in Range(rows) :
          /\ newer.job_id = r.job_id
          /\ newer.user_id = r.user_id
          /\ newer.state \in {"analyzed", "relevant", "irrelevant"}
          /\ newer.state_timestamp > r.state_timestamp

clear_stale_queued_jobs ==
    /\ job_states' = SelectSeq(job_states, LAMBDA r : ~IsStaleQueued(job_states, r))
    /\ lastCall' = MaintenanceCall
    /\ UNCHANGED <<job_listings, job_analysis, clock>>
    /\ UNCHANGED <<anVars, scrVars, schVars, restVars>>

----------------------------------------------------------------------------
(* services/orchestrator_service.py: get_job_details *)

MaxViewedRows == 1     \* viewed rows the job_states table may hold

ViewedRows(rows) == Cardinality({i \in DOMAIN rows : rows[i].state = "viewed"})

\* The state appended last for the pair, "none" when the pair has no row.
LatestState(j, u) ==
    IF PairRows(job_states, j, u) = <<>> THEN "none"
    ELSE LastAppended(job_states, j, u)

\* current is what get_current_job_state returned to the call, latest the
\* state that was the last appended one when it was read.
IdleViewer ==
    [pc |-> "idle", job_id |-> "none", user_id |-> 0, current |-> "none",
     latest |-> "none", outcome |-> "none"]

\* get_job_details(job_id, user_id) up to its reads: ValueError when the
\* posting is not listed; else the current state is read.
OrchestratorService_get_job_details(j, u) ==
    /\ viewer.pc \in {"idle", "returned", "raised"}
    /\ IF j \notin job_listings
       THEN viewer' = [IdleViewer EXCEPT !.pc = "raised", !.job_id = j,
                                         !.user_id = u, !.outcome = "ValueError"]
       ELSE \E cur \in CurrentStateChoices(j, u) :
               viewer' = [IdleViewer EXCEPT !.pc = "mark", !.job_id = j,
                                            !.user_id = u, !.current = cur,
                                            !.latest = LatestState(j, u)]
    /\ lastCall' = NoCall
    /\ UNCHANGED <<job_listings, job_states, job_analysis, clock>>
    /\ UNCHANGED brFrame

\* `if current_state and current_state["state"] in ["relevant", "saved"]`:
\* add_job_state(job_id, user_id, "viewed"), which the foreign key rejects
\* when the listing has been deleted meanwhile; then the details are returned.
GetJobDetails_Mark ==
    /\ viewer.pc = "mark"
    /\ IF viewer.current \in {"relevant", "saved"}
       THEN IF viewer.job_id \in job_listings
            THEN /\ ViewedRows(job_states) < MaxViewedRows
                 /\ job_states' = InsertState(job_states, viewer.job_id,
                                              viewer.user_id, "viewed", clock)
                 /\ viewer' = [viewer EXCEPT !.pc = "returned", !.outcome = "viewed"]
            ELSE /\ viewer' = [viewer EXCEPT !.pc = "raised",
                                             !.outcome = "IntegrityError"]
                 /\ UNCHANGED job_states
       ELSE /\ viewer' = [viewer EXCEPT !.pc = "returned", !.outcome = "unmarked"]
            /\ UNCHANGED job_states
    /\ lastCall' = NoCall
    /\ UNCHANGED <<job_listings, job_analysis, clock>>
    /\ UNCHANGED brFrame

InitViewerVars == viewer = IdleViewer

----------------------------------------------------------------------------
(* database/db_manager.py: transaction; services/database_service.py:       *)
(* delete_job statement by statement                                        *)

\* The three tables as one value
Tables(listings, rows, analysis) ==
    [job_listings |-> listings, job_states |-> rows, job_analysis |-> analysis]

IdleTxn ==
    [pc |-> "idle", job_id |-> "none", user_id |-> 0, executed |-> 0,
     began |-> Tables({}, <<>>, {})]

\* conn.rollback(): the tables are what they were when the transaction began
\* (the statements of the transaction are undone).
RollbackNothing(working, began) == working

Rollback(working, began) == began

\* `with self.db_manager.transaction() as conn:` is entered by
\* delete_job(job_id, user_id).
Transaction_Enter(j, u) ==
    /\ txn.pc \in {"idle", "committed", "raised"}
    /\ txn' = [pc |-> "states", job_id |-> j, user_id |-> u, executed |-> 0,
               began |-> Tables(job_listings, job_states, job_analysis)]
    /\ UNCHANGED dbVars
    /\ UNCHANGED txFrame

\* conn.execute(states_query, (job_id, user_id))
DeleteJob_States ==
    /\ txn.pc = "states"
    /\ job_states' = DeleteUserStates(job_states, txn.job_id, txn.user_id)
    /\ txn' = [txn EXCEPT !.pc = "analysis", !.executed = 1]
    /\ UNCHANGED <<job_listings, job_analysis, clock, lastCall>>
    /\ UNCHANGED txFrame

\* conn.execute(analysis_query, (job_id, user_id))
DeleteJob_Analysis ==
    /\ txn.pc = "analysis"
    /\ job_analysis' = DeleteUserAnalysis(job_analysis, txn.job_id, txn.user_id)
    /\ txn' = [txn EXCEPT !.pc = "listing", !.executed = 2]
    /\ UNCHANGED <<job_listings, job_states, clock, lastCall>>
    /\ UNCHANGED txFrame

\* the reference count and, at 0, conn.execute(job_query, (job_id,))
DeleteJob_Listing ==
    /\ txn.pc = "listing"
    /\ job_listings' = IF RefCount(job_states, job_analysis, txn.job_id) = 0
                       THEN job_listings \ {txn.job_id}
                       ELSE job_listings
    /\ txn' = [txn EXCEPT !.pc = "commit", !.executed = 3]
    /\ UNCHANGED <<job_states, job_analysis, clock, lastCall>>
    /\ UNCHANGED txFrame

\* transaction: conn.commit() after the block has completed
Transaction_Commit ==
    /\ txn.pc = "commit"
    /\ txn' = [txn EXCEPT !.pc = "committed"]
    /\ UNCHANGED dbVars
    /\ UNCHANGED txFrame

\* transaction: `except Exception: conn.rollback(); raise`, the exception
\* coming from the next statement of the block or from conn.commit()
Transaction_Except ==
    /\ txn.pc \in {"states", "analysis", "listing", "commit"}
    /\ LET now == Rollback(Tables(job_listings, job_states, job_analysis), txn.began)
       IN  /\ job_listings' = now.job_listings
           /\ job_states' = now.job_states
           /\ job_analysis' = now.job_analysis
    /\ txn' = [txn EXCEPT !.pc = "raised"]
    /\ UNCHANGED <<clock, lastCall>>
    /\ UNCHANGED txFrame

InitTxnVars == txn = IdleTxn

----------------------------------------------------------------------------
(* database/db_manager.py: get_connection *)

MaxDbThreads == 3      \* threads started in one run of the model
MaxIdents == 2         \* thread identifiers the interpreter hands out

DbThreads == 1..MaxDbThreads

\* The values of threading.get_ident()
Idents == 1..MaxIdents

UnbornThread == [state |-> "unborn", ident |-> 0]

\* A thread starts.  Its identifier is one no live thread has; the
\* identifier of a thread that has exited may be handed out again.
Thread_Start(t, id) ==
    /\ db_threads[t].state = "unborn"
    /\ \A o \in DbThreads : db_threads[o].state = "alive" => db_threads[o].ident # id
    /\ db_threads' = [db_threads EXCEPT ![t] = [state |-> "alive", ident |-> id]]
    /\ UNCHANGED <<connection_pool, connections, used>>
    /\ UNCHANGED poolFrame

\* A thread ends; nothing removes its entry from the pool.
Thread_Exit(t) ==
    /\ db_threads[t].state = "alive"
    /\ db_threads' = [db_threads EXCEPT ![t].state = "exited"]
    /\ UNCHANGED <<connection_pool, connections, used>>
    /\ UNCHANGED poolFrame

\* get_connection() on thread t: under pool_lock, a connection is created and
\* stored when the pool has none under threading.get_ident(); the pool's entry
\* is returned.
DatabaseManager_get_connection(t) ==
    /\ db_threads[t].state = "alive"
    /\ LET thread_id == db_threads[t].ident
       IN  IF connection_pool[thread_id] = 0
           THEN /\ connections' = Append(connections, t)
                /\ connection_pool' =
                      [connection_pool EXCEPT ![thread_id] = Len(connections) + 1]
                /\ used' = used \cup {<<Len(connections) + 1, t>>}
           ELSE /\ used' = used \cup {<<connection_pool[thread_id], t>>}
                /\ UNCHANGED <<connections, connection_pool>>
    /\ UNCHANGED db_threads
    /\ UNCHANGED poolFrame

InitPoolVars ==
    /\ connection_pool = [id \in Idents |-> 0]
    /\ db_threads = [t \in DbThreads |-> UnbornThread]
    /\ connections = <<>>
    /\ used = {}

----------------------------------------------------------------------------
(* services/orchestrator_service.py: search_jobs *)

\* The `states` argument: None (the empty set) or a list of states
StateFilters == {{}, {"relevant"}, {"saved"}}

NoSearch == [user_id |-> 0, states |-> {}, results |-> {}]

\* FROM job_listings j JOIN job_states s ON j.job_id = s.job_id
\* WHERE s.user_id = ? [AND s.state IN (...)]: the rows of one job that the
\* WHERE clause keeps, as positions in job_states
Matching(listings, rows, j, u, states) ==
    {i \in DOMAIN rows :
        /\ j \in listings
        /\ rows[i].job_id = j
        /\ rows[i].user_id = u
        /\ (states # {} => rows[i].state \in states)}

\* GROUP BY j.job_id with the bare columns s.state, s.state_timestamp: one
\* result row per job with a matching row, its state taken from a row of the
\* group that SQLite chooses.  The results are the possible outcomes.
SearchResults(listings, rows, u, states) ==
    LET found == {j \in Jobs : Matching(listings, rows, j, u, states) # {}}
    IN  { {[job_id |-> j, state |-> rows[pick[j]].state] : j \in found} :
            pick \in {f \in [found -> DOMAIN rows] :
                        \A j \in found : f[j] \in Matching(listings, rows, j, u, states)} }

\* search_jobs(user_id, "", states) with the default limit and offset
OrchestratorService_search_jobs(u, states) ==
    /\ \E results \in SearchResults(job_listings, job_states, u, states) :
          search' = [user_id |-> u, states |-> states, results |-> results]
    /\ UNCHANGED srFrame

InitSearchVars == search = NoSearch

----------------------------------------------------------------------------
(* utils/security.py: generate_password and validate_password *)

\* A password is a sequence of characters, each taken as its class: the
\* alphabet is string.ascii_letters + string.digits + string.punctuation.
CharClasses == {"lower", "upper", "digit", "punct"}

\* The lengths generate_password is called with
PasswordLengths == {8}

\* SecurityConstants.PASSWORD_MIN_LENGTH
PASSWORD_MIN_LENGTH == 8

Count(p, class) == Cardinality({i \in DOMAIN p : p[i] = class})

\* The loop condition of generate_password: a lowercase letter, an uppercase
\* letter and at least three digits
Generated(p) ==
    /\ Count(p, "lower") >= 1
    /\ Count(p, "upper") >= 1
    /\ Count(p, "digit") >= 3

\* validate_password(password): the message of the first failing check
validate_password(p) ==
    IF Len(p) < PASSWORD_MIN_LENGTH THEN "too short"
    ELSE IF Count(p, "upper") = 0 THEN "no uppercase letter"
    ELSE IF Count(p, "lower") = 0 THEN "no lowercase letter"
    ELSE IF Count(p, "digit") = 0 THEN "no digit"
    ELSE IF Count(p, "punct") = 0 THEN "no special character"
    ELSE "valid"

NoPassword == [password |-> <<>>, verdict |-> "none"]

\* generate_password(length): random passwords are drawn until one meets the
\* loop condition, and that one is returned.
SecurityUtils_generate_password(length) ==
    /\ pw.password = <<>>
    /\ \E p \in [1..length -> CharClasses] :
          /\ Generated(p)
          /\ pw' = [password |-> p, verdict |-> "none"]
    /\ UNCHANGED pwFrame

\* validate_password on the generated password
SecurityUtils_validate_password ==
    /\ pw.password # <<>>
    /\ pw.verdict = "none"
    /\ pw' = [pw EXCEPT !.verdict = validate_password(pw.password)]
    /\ UNCHANGED pwFrame

InitPasswordVars == pw = NoPassword

----------------------------------------------------------------------------
(* services/scraper_service.py: scrape calls on the one ScraperService, each *)
(* on its own thread (scraper_lock is created and never taken)               *)

MaxScrapedRows == 3    \* state rows the scrape calls may append

\* The scrape calls followed; s1 is the one entered first.
ScrapeRuns == {"s1", "s2"}

EnteredBefore(s) == IF s = "s2" THEN {"s1"} ELSE {}

\* Each call passes its own callback (a lambda bound to its job id).
CallbackOf(s) == IF s = "s1" THEN 1 ELSE 2

\* A scrape call: kind is general (scrape_jobs) or company
\* (scrape_company_jobs), query the query whose session it is in, ended how
\* it returned, overlapped whether another call was in progress during it.
IdleScrape ==
    [pc |-> "idle", kind |-> "none", user_id |-> 0, callback |-> 0,
     query |-> 0, ended |-> "none", overlapped |-> FALSE]

\* Call s is entered as a call of the kind for user u.
Entered(s, kind, u) ==
    LET others == {r \in ScrapeRuns \ {s} : scrape_runs[r].pc = "running"}
    IN  [r \in ScrapeRuns |->
            IF r = s
            THEN [IdleScrape EXCEPT !.pc = "running", !.kind = kind, !.user_id = u,
                                    !.callback = CallbackOf(s), !.query = 1,
                                    !.overlapped = (others # {})]
            ELSE IF r \in others
            THEN [scrape_runs[r] EXCEPT !.overlapped = TRUE]
            ELSE scrape_runs[r]]

\* One delivery to _handle_data during a query of call s, and what the
\* handler did with it for the user and callback it found in the fields.
RunData(s, j, sc, processed) ==
    [kind |-> "data", run |-> s, query |-> scrape_runs[s].query, job_id |-> j,
     user_id |-> sc.current_user_id, callback |-> sc.callback,
     state |-> "none", processed |-> processed]

RunState(s, j, sc, st) ==
    [kind |-> "state", run |-> s, query |-> scrape_runs[s].query, job_id |-> j,
     user_id |-> sc.current_user_id, callback |-> sc.callback,
     state |-> st, processed |-> TRUE]

RunCallback(s, j, sc) ==
    [kind |-> "job_found", run |-> s, query |-> scrape_runs[s].query, job_id |-> j,
     user_id |-> sc.current_user_id, callback |-> sc.callback,
     state |-> "none", processed |-> TRUE]

RunDeliveries == Cardinality({i \in DOMAIN runLog : runLog[i].kind = "data"})

\* scrape_jobs(user_id, callback) is entered on the thread of call s: user,
\* callback and seen-set are set, the allow-list is left as it is, and the
\* first query is run.
ScrapeRun_scrape_jobs(s, u) ==
    /\ scrape_runs[s].pc = "idle"
    /\ \A r \in EnteredBefore(s) : scrape_runs[r].pc # "idle"
    /\ scraper' = [scraper EXCEPT !.current_user_id = u,
                                  !.callback = CallbackOf(s),
                                  !.current_jobs = {}]
    /\ scrape_runs' = Entered(s, "general", u)
    /\ UNCHANGED <<scrLog, runLog, dbVars>>
    /\ UNCHANGED runFrame

\* scrape_company_jobs(url, user_id, job_ids, callback) with job ids is
\* entered on the thread of call s: as above, the job ids become the
\* allow-list, and the one query is run.
ScrapeRun_scrape_company_jobs(s, u, ids) ==
    /\ scrape_runs[s].pc = "idle"
    /\ \A r \in EnteredBefore(s) : scrape_runs[r].pc # "idle"
    /\ ids # {}
    /\ scraper' = [scraper EXCEPT !.current_user_id = u,
                                  !.callback = CallbackOf(s),
                                  !.current_jobs = {},
                                  !.allowed_job_ids = ids]
    /\ scrape_runs' = Entered(s, "company", u)
    /\ UNCHANGED <<scrLog, runLog, dbVars>>
    /\ UNCHANGED runFrame

\* The query of call s finds posting j and the library emits DATA:
\* _handle_data(data), with the fields as they are at that moment.
ScrapeRun_handle_data(s, j) ==
    /\ scrape_runs[s].pc = "running"
    /\ RunDeliveries < MaxDeliveries
    /\ IF ~Accepted(scraper, j) \/ SeenThisRun(scraper, j)
       THEN /\ runLog' = Append(runLog, RunData(s, j, scraper, FALSE))
            /\ UNCHANGED <<scraper, dbVars>>
       ELSE \E current \in CurrentStateChoices(j, scraper.current_user_id) :
            LET u == scraper.current_user_id
                sts == StatesToAppend(j \in job_listings, current)
            IN  /\ Len(job_states) + Len(sts) <= MaxScrapedRows
                /\ \E times \in ClockReadings(Len(sts)) :
                     /\ job_states' = AppendStates(job_states, j, u, sts, times)
                     /\ clock' = IF sts = <<>> THEN clock ELSE times[Len(sts)]
                /\ job_listings' = job_listings \cup {j}
                /\ scraper' = [scraper EXCEPT !.current_jobs = @ \cup {j}]
                /\ runLog' =
                     runLog
                       \o <<RunData(s, j, scraper, TRUE)>>
                       \o [i \in 1..Len(sts) |-> RunState(s, j, scraper, sts[i])]
                       \o (IF scraper.callback # 0
                           THEN <<RunCallback(s, j, scraper)>> ELSE <<>>)
                /\ UNCHANGED <<job_analysis, lastCall>>
    /\ UNCHANGED <<scrape_runs, scrLog>>
    /\ UNCHANGED runFrame

\* The query of call s is over and the library emits END: _handle_end()
\* resets the seen-set and the allow-list.  scrape_jobs then runs its next
\* query, if there is one, or returns its success result; scrape_company_jobs
\* has one query.
ScrapeRun_handle_end(s) ==
    /\ scrape_runs[s].pc = "running"
    /\ scraper' = [scraper EXCEPT !.current_jobs = {}, !.allowed_job_ids = {}]
    /\ scrape_runs' = [scrape_runs EXCEPT ![s] =
          IF @.kind = "general" /\ @.query < MaxSessions
          THEN [@ EXCEPT !.query = @ + 1]
          ELSE [@ EXCEPT !.pc = "returned", !.ended = "success"]]
    /\ UNCHANGED <<scrLog, runLog, dbVars>>
    /\ UNCHANGED runFrame

\* self.scraper.run(query) raises during the query of call s: no END is
\* emitted, the except branch reports the error and the call returns its
\* error result; the fields stay as they are.
ScrapeRun_run_raises(s) ==
    /\ scrape_runs[s].pc = "running"
    /\ scrape_runs' = [scrape_runs EXCEPT ![s] =
          [@ EXCEPT !.pc = "returned", !.ended = "error"]]
    /\ UNCHANGED <<scraper, scrLog, runLog, dbVars>>
    /\ UNCHANGED runFrame

InitRunVars ==
    /\ scrape_runs = [s \in ScrapeRuns |-> IdleScrape]
    /\ runLog = <<>>

InitRestVars ==
    /\ InitLoadVars
    /\ InitLifecycleVars
    /\ InitViewerVars
    /\ InitTxnVars
    /\ InitPoolVars
    /\ InitSearchVars
    /\ InitPasswordVars
    /\ InitRunVars

----------------------------------------------------------------------------
(* services/orchestrator_service.py: the state transition API *)

\* How an update_job_state call ended.
UpdateCall(outcome) == [op |-> "update_job_state", outcome |-> outcome]

\* The target states the requests ask for.
TargetInputs == {"saved", "applied", "rejected", "viewed", "relevant", "bogus"}

\* `if new_state not in ["saved", "applied", "rejected"]` ...
AllowedTargetsAndViewed == {"saved", "applied", "rejected", "viewed"}

AllowedTargets == {"saved", "applied", "rejected"}

\* update_job_state(job_id, user_id, new_state): a target outside the allowed
\* ones raises ValueError before the database is touched; else add_job_state
\* appends the row, or fails on the foreign key of a posting that is not
\* listed.
OrchestratorService_update_job_state(j, u, s) ==
    /\ UNCHANGED restVars
    /\ IF s \notin AllowedTargets
       THEN /\ lastCall' = UpdateCall("ValueError")
            /\ UNCHANGED <<job_states, clock>>
       ELSE IF j \notin job_listings
       THEN /\ lastCall' = UpdateCall("IntegrityError")
            /\ UNCHANGED <<job_states, clock>>
       ELSE /\ Len(job_states) < MaxStateRows
            /\ job_states' = InsertState(job_states, j, u, s, clock)
            /\ lastCall' = UpdateCall("success")
            /\ UNCHANGED clock
    /\ UNCHANGED <<job_listings, job_analysis>>
    /\ UNCHANGED <<anVars, scrVars, schVars>>

----------------------------------------------------------------------------
(* Specification of the persistence layer *)

InitDB ==
    /\ job_listings = {}
    /\ job_states = <<>>
    /\ job_analysis = {}
    /\ clock = 0
    /\ lastCall = NoCall
    /\ InitAnalysisVars
    /\ InitScraperVars
    /\ InitSchedulerVars
    /\ InitRestVars

NextDB ==
    \/ \E j \in Jobs : DatabaseService_add_job_listing(j)
    \/ \E j \in Jobs, u \in UserIds, s \in StateInputs :
            DatabaseService_add_job_state(j, u, s)
    \/ \E j \in Jobs, u \in UserIds, sc \in Scores :
            DatabaseService_add_job_analysis(j, u, sc)
    \/ \E j \in Jobs, u \in UserIds : OrchestratorService_delete_job(j, u)
    \/ ClockTick

SpecDB == InitDB /\ [][NextDB]_vars

----------------------------------------------------------------------------
(* Specification of the analysis pipeline: one analyze_job call at a time,  *)
(* with the users deleting and the scraper re-adding listings meanwhile.    *)

InitAnalysis ==
    /\ job_listings \in SUBSET Jobs
    /\ job_states = <<>>
    /\ job_analysis = {}
    /\ clock = 0
    /\ lastCall = NoCall
    /\ InitAnalysisVars
    /\ InitScraperVars
    /\ InitSchedulerVars
    /\ InitRestVars

NextAnalysis ==
    \/ \E j \in Jobs, u \in UserIds, prefs \in PrefInputs, store \in BOOLEAN :
            JobAnalysisService_analyze_job(j, u, prefs, store)
    \/ \E o \in ProviderOutcomes : TitleAttempt(o)
    \/ \E o \in ProviderOutcomes : DescAttempt(o)
    \/ \E j \in Jobs, u \in UserIds : OrchestratorService_delete_job(j, u)
    \/ \E j \in Jobs : DatabaseService_add_job_listing(j)

SpecAnalysis == InitAnalysis /\ [][NextAnalysis]_vars

----------------------------------------------------------------------------
(* Specification of the scraper: scrape calls, the events of their sessions *)
(* and the users deleting postings meanwhile.                               *)

InitScraper ==
    /\ job_listings = {}
    /\ job_states = <<>>
    /\ job_analysis = {}
    /\ clock = 0
    /\ lastCall = NoCall
    /\ InitAnalysisVars
    /\ InitScraperVars
    /\ InitSchedulerVars
    /\ InitRestVars

NextScraper ==
    \/ \E u \in UserIds, cb \in Callbacks : ScraperService_scrape_jobs(u, cb)
    \/ \E u \in UserIds, ids \in SUBSET Jobs, cb \in Callbacks :
            ScraperService_scrape_company_jobs(u, ids, cb)
    \/ \E j \in Jobs : ScraperService_handle_data(j)
    \/ ScraperService_handle_end
    \/ \E j \in Jobs, u \in UserIds : OrchestratorService_delete_job(j, u)

SpecScraper == InitScraper /\ [][NextScraper]_vars

----------------------------------------------------------------------------
(* Specification of rediscovery: scrapes delivering postings that other    *)
(* services have listed and given states meanwhile.                         *)

NextRediscovery ==
    \/ \E u \in UserIds, cb \in Callbacks : ScraperService_scrape_jobs(u, cb)
    \/ \E j \in Jobs : ScraperService_handle_data(j)
    \/ ScraperService_handle_end
    \/ \E j \in Jobs : DatabaseService_add_job_listing(j)
    \/ \E j \in Jobs, u \in UserIds, st \in StateInputs :
            DatabaseService_add_job_state(j, u, st)

SpecRediscovery == InitScraper /\ [][NextRediscovery]_vars

----------------------------------------------------------------------------
(* Specification of the analysis queue: one analyze_queued_jobs or          *)
(* reanalyze_job call over postings the scraper has queued, some of them    *)
(* with an analysis stored earlier, and the users deleting postings         *)
(* meanwhile.                                                               *)

\* The rows the scraper appended for user 1 and the postings of Q.
ScrapedRows(Q) ==
    LET pair(j) == <<StateRow(j, 1, "new_scraped", 0),
                     StateRow(j, 1, "queued_for_analysis", 0)>>
    IN  (IF "j1" \in Q THEN pair("j1") ELSE <<>>)
            \o (IF "j2" \in Q THEN pair("j2") ELSE <<>>)

InitQueue ==
    /\ job_listings = Jobs
    /\ \E Q \in SUBSET Jobs :
         /\ job_states = ScrapedRows(Q)
         /\ \E A \in SUBSET Q : \E sc \in [A -> Scores] :
              job_analysis = {[job_id |-> j, user_id |-> 1, relevance_score |-> sc[j]] : j \in A}
    /\ clock = 0
    /\ lastCall = NoCall
    /\ InitAnalysisVars
    /\ InitScraperVars
    /\ InitSchedulerVars
    /\ InitRestVars

NextQueue ==
    \/ \E u \in UserIds, limit \in Limits, cb \in Callbacks, prefs \in QueuePrefInputs :
            JobAnalysisService_analyze_queued_jobs(u, limit, cb, prefs)
    \/ JobAnalysisService_process_queued_job
    \/ JobAnalysisService_update_analysis_results
    \/ JobAnalysisService_analyze_queued_jobs_return
    \/ \E j \in Jobs, u \in UserIds, prefs \in QueuePrefInputs :
            JobAnalysisService_reanalyze_job(j, u, prefs)
    \/ JobAnalysisService_reanalyze_job_return
    \/ \E o \in QueueOutcomes : TitleAttempt(o)
    \/ \E o \in QueueOutcomes : DescAttempt(o)
    \/ \E j \in Jobs, u \in UserIds : OrchestratorService_delete_job(j, u)

SpecQueue == InitQueue /\ [][NextQueue]_vars

----------------------------------------------------------------------------
(* Specification of the schedules: the scheduler thread loading them at its *)
(* start and two requests updating a schedule, each reloading afterwards.   *)

InitSchedules ==
    /\ job_listings = {}
    /\ job_states = <<>>
    /\ job_analysis = {}
    /\ clock = 0
    /\ lastCall = NoCall
    /\ InitAnalysisVars
    /\ InitScraperVars
    /\ InitSchedulerVars
    /\ InitRestVars

NextSchedules ==
    \/ \E t \in RequestThreads, u \in UserIds, in \in ScheduleInputs :
            SchedulerService_update_schedule(t, u, in)
    \/ \E t \in RequestThreads : UpdateUserSchedule_Write(t)
    \/ SchedulerService_scheduler_loop("p1")
    \/ \E t \in LoaderThreads : LoadSchedules_Clear(t)
    \/ \E t \in LoaderThreads : LoadSchedules_Read(t)
    \/ \E t \in LoaderThreads : LoadSchedules_Register(t)

SpecSchedules == InitSchedules /\ [][NextSchedules]_vars

----------------------------------------------------------------------------
(* Specification of the poll thread: start, stop and restart called one     *)
(* after another, and the poll threads they create.                         *)

InitLifecycle == InitSchedules

NextLifecycle ==
    \/ SchedulerService_start
    \/ SchedulerService_stop
    \/ SchedulerService_restart
    \/ SchedulerService_stop_join
    \/ SchedulerService_restart_start
    \/ \E t \in PollThreadIds : SchedulerLoop_Load(t)
    \/ \E t \in PollThreadIds : SchedulerLoop_Check(t)
    \/ \E t \in PollThreadIds, due \in BOOLEAN : SchedulerLoop_RunPending(t, due)
    \/ \E t \in PollThreadIds : SchedulerLoop_JobReturns(t)
    \/ \E t \in PollThreadIds : SchedulerLoop_Sleep(t)

SpecLifecycle == InitLifecycle /\ [][NextLifecycle]_vars

----------------------------------------------------------------------------
(* Specification of browsing: users open, mark and delete the postings the  *)
(* analysis has classified for them.                                        *)

\* The state rows analyze_job and the scraper left for a pair.
BrowseHistories ==
    { <<>>, <<"queued_for_analysis">>, <<"relevant">>, <<"irrelevant">> }

InitBrowse ==
    /\ job_listings \in SUBSET Jobs
    /\ clock = 0
    /\ \E h \in BrowseHistories : \E ts \in ClockReadings(Len(h)) :
          job_states = AppendStates(<<>>, "j1", 1, h, ts)
    /\ \A r \in Range(job_states) : r.job_id \in job_listings
    /\ job_analysis = {}
    /\ lastCall = NoCall
    /\ InitAnalysisVars
    /\ InitScraperVars
    /\ InitSchedulerVars
    /\ InitRestVars

NextBrowse ==
    \/ \E j \in Jobs, u \in UserIds : OrchestratorService_get_job_details(j, u)
    \/ GetJobDetails_Mark
    \/ \E j \in Jobs, u \in UserIds, s \in TargetInputs :
            OrchestratorService_update_job_state(j, u, s)
    \/ \E j \in Jobs, u \in UserIds : OrchestratorService_delete_job(j, u)
    \/ ClockTick

SpecBrowse == InitBrowse /\ [][NextBrowse]_vars

----------------------------------------------------------------------------
(* Specification of the state history: one posting on its way through       *)
(* scraping, batch analysis, reanalysis, viewing, marking, deletion and the *)
(* maintenance script, in any interleaving.                                 *)

\* What the provider returns here: an object scoring 0.9.
HistoryOutcomes ==
    {o \in QueueOutcomes : o.kind = "text" /\ o.text = <<"{", "K9", "}">>}

HistoryPrefs == {p \in QueuePrefInputs : p.relevance_threshold = Missing}

\* The one scrape call of user 1
FirstScrape ==
    /\ scraper.current_user_id = 0
    /\ ScraperService_scrape_jobs(1, 0)

\* The scraper delivers the posting to it, once.
FirstDelivery ==
    /\ scrLog = <<>>
    /\ ScraperService_handle_data("j1")

NextHistory ==
    \/ FirstScrape
    \/ FirstDelivery
    \/ JobAnalysisService_analyze_queued_jobs(1, 1, 0, CHOOSE p \in HistoryPrefs : TRUE)
    \/ JobAnalysisService_process_queued_job
    \/ JobAnalysisService_update_analysis_results
    \/ JobAnalysisService_analyze_queued_jobs_return
    \/ JobAnalysisService_reanalyze_job("j1", 1, CHOOSE p \in HistoryPrefs : TRUE)
    \/ JobAnalysisService_reanalyze_job_return
    \/ \E o \in HistoryOutcomes : TitleAttempt(o)
    \/ \E o \in HistoryOutcomes : DescAttempt(o)
    \/ OrchestratorService_get_job_details("j1", 1)
    \/ GetJobDetails_Mark
    \/ OrchestratorService_update_job_state("j1", 1, "saved")
    \/ OrchestratorService_delete_job("j1", 1)
    \/ clear_stale_queued_jobs

InitHistory ==
    /\ job_listings \in SUBSET {"j1"}
    /\ job_states = <<>>
    /\ job_analysis = {}
    /\ clock = 0
    /\ lastCall = NoCall
    /\ InitAnalysisVars
    /\ InitScraperVars
    /\ InitSchedulerVars
    /\ InitRestVars

SpecHistory == InitHistory /\ [][NextHistory]_vars

----------------------------------------------------------------------------
(* Specification of the scoped transaction: delete_job calls of one thread  *)
(* on tables holding rows of both users, any statement of which may fail.   *)

Pairs == Jobs \X UserIds

\* One state row per pair of P, in a fixed order
RECURSIVE PairStateRows(_)
PairStateRows(P) ==
    IF P = {} THEN <<>>
    ELSE LET p == CHOOSE x \in P : TRUE
         IN  <<StateRow(p[1], p[2], "relevant", 0)>> \o PairStateRows(P \ {p})

InitTransaction ==
    /\ job_listings = Jobs
    /\ \E P \in SUBSET Pairs : job_states = PairStateRows(P)
    /\ \E A \in SUBSET Pairs :
          job_analysis = {[job_id |-> p[1], user_id |-> p[2], relevance_score |-> 9] : p \in A}
    /\ clock = 0
    /\ lastCall = NoCall
    /\ InitAnalysisVars
    /\ InitScraperVars
    /\ InitSchedulerVars
    /\ InitRestVars

NextTransaction ==
    \/ \E j \in Jobs, u \in UserIds : Transaction_Enter(j, u)
    \/ DeleteJob_States
    \/ DeleteJob_Analysis
    \/ DeleteJob_Listing
    \/ Transaction_Commit
    \/ Transaction_Except

SpecTransaction == InitTransaction /\ [][NextTransaction]_vars

----------------------------------------------------------------------------
(* Specification of the connection pool: threads start, use the database    *)
(* and exit.                                                                *)

InitPool == InitSchedules

NextPool ==
    \/ \E t \in DbThreads, id \in Idents : Thread_Start(t, id)
    \/ \E t \in DbThreads : Thread_Exit(t)
    \/ \E t \in DbThreads : DatabaseManager_get_connection(t)

SpecPool == InitPool /\ [][NextPool]_vars

----------------------------------------------------------------------------
(* Specification of the search: users mark postings and search them.        *)

NextSearch ==
    \/ \E u \in UserIds, states \in StateFilters : OrchestratorService_search_jobs(u, states)
    \/ \E j \in Jobs, u \in UserIds, s \in TargetInputs :
            OrchestratorService_update_job_state(j, u, s)
    \/ ClockTick

SpecSearch == InitBrowse /\ [][NextSearch]_vars

----------------------------------------------------------------------------
(* Specification of the passwords: one is generated and validated.          *)

InitPassword == InitSchedules

NextPassword ==
    \/ \E length \in PasswordLengths : SecurityUtils_generate_password(length)
    \/ SecurityUtils_validate_password

SpecPassword == InitPassword /\ [][NextPassword]_vars

----------------------------------------------------------------------------
(* Specification of the scheduler: two workflow runs, started manually or   *)
(* by the schedule, and a request thread cancelling jobs.                   *)

InitScheduler ==
    /\ job_listings = {}
    /\ job_states = <<>>
    /\ job_analysis = {}
    /\ clock = 0
    /\ lastCall = NoCall
    /\ InitAnalysisVars
    /\ InitScraperVars
    /\ running_jobs = EmptyMap
    /\ callbacks = EmptyMap
    /\ status_lock = "free"
    /\ workers = [w \in Workers |-> IdleWorker]
    /\ canceller = IdleCanceller
    /\ schedule_settings = [u \in {1} |-> Missing]
    /\ schedLog = {}
    /\ notified = NoneNotified
    /\ InitRestVars

NextScheduler ==
    \/ \E w \in Workers, u \in SchedulerUsers, cb \in BOOLEAN, now \in 0..MaxClock :
            SchedulerService_run_job_now(w, u, cb, now)
    \/ \E w \in Workers, u \in SchedulerUsers, now \in 0..MaxClock :
            SchedulerService_run_scheduled_job(w, u, now)
    \/ \E w \in Workers : SetJobStatus_Write(w)
    \/ \E w \in Workers : SetJobStatus_Callback(w)
    \/ \E w \in Workers : SetJobStatus_Del(w)
    \/ \E w \in Workers : UpdateJobStatus_Write(w)
    \/ \E w \in Workers : UpdateJobStatus_Callback(w)
    \/ \E w \in Workers, o \in ScrapeOutcomes : Workflow_scrape_jobs(w, o)
    \/ \E w \in Workers, raises \in BOOLEAN : Workflow_analyze_queued_jobs(w, raises)
    \/ \E w \in Workers, raises \in BOOLEAN : Workflow_update_last_run(w, raises)
    \/ \E id \in JobIds : SchedulerService_cancel_job(id)
    \/ CancelJob_Callback
    \/ CancelJob_Del

SpecScheduler == InitScheduler /\ [][NextScheduler]_vars

----------------------------------------------------------------------------
(* Specification of the orchestrator's job API: user requests on postings  *)
(* that are listed or not.                                                  *)

InitOrchestrator ==
    /\ job_listings \in SUBSET Jobs
    /\ job_states = <<>>
    /\ job_analysis = {}
    /\ clock = 0
    /\ lastCall = NoCall
    /\ InitAnalysisVars
    /\ InitScraperVars
    /\ InitSchedulerVars
    /\ InitRestVars

NextOrchestrator ==
    \/ \E j \in Jobs, u \in UserIds, s \in TargetInputs :
            OrchestratorService_update_job_state(j, u, s)
    \/ \E j \in Jobs, u \in UserIds : OrchestratorService_delete_job(j, u)
    \/ ClockTick

SpecOrchestrator == InitOrchestrator /\ [][NextOrchestrator]_vars

----------------------------------------------------------------------------
(* Claims about the persistence layer (checked under SpecDB) *)

\* C1: for every (job, user) pair with states S1..Sn appended in that order,
\* get_current_job_state returns Sn, and get_jobs_by_state(user, Sk) holds the
\* job only if Sk = Sn.
C1_CurrentStateIsLastAppended ==
    \A j \in Jobs, u \in UserIds :
        PairRows(job_states, j, u) # <<>> =>
            /\ \A r \in get_current_job_state(job_states, j, u) :
                    r.state = LastAppended(job_states, j, u)
            /\ \A s \in VALID_STATES :
                    j \in get_jobs_by_state(job_listings, job_states, u, s)
                        => s = LastAppended(job_states, j, u)

\* Some other user still has a state or analysis row for the job.
OthersReference(rows, analysis, j, u) ==
    \/ \E r \in Range(rows) : r.job_id = j /\ r.user_id # u
    \/ \E a \in analysis : a.job_id = j /\ a.user_id # u

OtherRows(rows, j, u) ==
    SelectSeq(rows, LAMBDA r : ~(r.job_id = j /\ r.user_id = u))

\* C2: delete_job(job, A) removes A's state and analysis rows of that job and
\* nothing else of the two tables; the shared listing row stays exactly when
\* another user still has a state or analysis row for the job, so that the
\* delete by the last referencing user removes it.
C2_DeleteIsolation ==
    [][\A j \in Jobs, u \in UserIds :
        lastCall' = DeleteCall(j, u) =>
            /\ PairRows(job_states', j, u) = <<>>
            /\ get_job_analysis(job_analysis', j, u) = {}
            /\ OtherRows(job_states', j, u) = OtherRows(job_states, j, u)
            /\ {a \in job_analysis' : ~(a.job_id = j /\ a.user_id = u)}
                    = {a \in job_analysis : ~(a.job_id = j /\ a.user_id = u)}
            /\ job_listings' \ {j} = job_listings \ {j}
            /\ j \in job_listings' <=>
                    (j \in job_listings
                        /\ OthersReference(job_states, job_analysis, j, u))
      ]_vars

\* User 1 has just deleted job j1 while user 2 keeps a state row and an
\* analysis row for it, and the shared listing row is still there.
C2_Witness ==
    /\ lastCall = DeleteCall("j1", 1)
    /\ PairRows(job_states, "j1", 2) # <<>>
    /\ get_job_analysis(job_analysis, "j1", 2) # {}
    /\ "j1" \in job_listings

----------------------------------------------------------------------------
(* Properties of the analysis pipeline *)

\* The title strategy returned a score below the title-match strictness and
\* analyze_job has returned.
TitleBelowStrictness ==
    /\ an.pc = "done"
    /\ titleRun.status = "returned"
    /\ titleRun.score < TitleMatchStrictness(an.prefs)

\* The description strategy is invoked exactly when the title strategy
\* returned a score of at least the strictness.
DescriptionInvokedIffTitlePasses ==
    /\ descRun.status # "idle" =>
          /\ titleRun.status = "returned"
          /\ titleRun.score >= TitleMatchStrictness(an.prefs)
    /\ (/\ an.pc \in {"desc", "done"}
        /\ titleRun.status = "returned"
        /\ titleRun.score >= TitleMatchStrictness(an.prefs)) => descRun.status # "idle"

\* The result of a skipped analysis.
SkippedResult ==
    /\ result.status = "ok"
    /\ result.relevance_score = titleRun.score
    /\ result.is_relevant = FALSE
    /\ result.skip_reason # "none"

\* C3 as stated: analyze_job invokes the description strategy if and only if
\* the title score is at least the title-match strictness; when the title
\* score is below it, description scoring is skipped, the returned relevance
\* score equals the title score, is_relevant is false and a skip reason is
\* populated.
C3_SkipResultAlways ==
    /\ DescriptionInvokedIffTitlePasses
    /\ TitleBelowStrictness => (descRun.status = "idle" /\ SkippedResult)

\* C3 as the code has it: analyze_job invokes the description strategy if and
\* only if the title score is at least the title-match strictness; when the
\* title score is below it, description scoring is skipped, and the returned
\* relevance score equals the title score, is_relevant is false and a skip
\* reason is populated unless storing the result raised, which can only happen
\* when results are stored, and then the error result is returned.
C3_SkipResultUnlessStoreFails ==
    /\ DescriptionInvokedIffTitlePasses
    /\ TitleBelowStrictness =>
          /\ descRun.status = "idle"
          /\ \/ SkippedResult
             \/ result = ErrorResult(an.job_id, "IntegrityError") /\ an.store_results

\* A title score of 0.9 below a strictness of 1.0 but above the relevance
\* threshold: skipped, stored, and reported as not relevant.
C3_Witness ==
    /\ TitleBelowStrictness
    /\ titleRun.score = 9
    /\ an.store_results
    /\ SkippedResult
    /\ get_job_analysis(job_analysis, an.job_id, an.user_id) # {}

\* The strategy calls that have ended.
EndedRuns == {run \in {titleRun, descRun} : run.status \in {"returned", "raised"}}

\* C4: if the LLM call of an analysis strategy raises a non-JSON-parse error
\* on every attempt, the provider is called exactly 3 times and analyze then
\* returns a zero score with the reasoning "API error", without raising.
C4_ProviderErrorsRetriedThreeTimes ==
    \A run \in EndedRuns :
        (\A i \in 1..Len(run.kinds) : run.kinds[i] \in {"ValueError", "Exception"}) =>
            /\ run.calls = max_retries
            /\ run.status = "returned"
            /\ run.score = 0
            /\ run.reasoning = "API error"

\* C5: if the LLM returns text from which no JSON object can be extracted, the
\* analysis strategy raises immediately after the first attempt: the provider
\* is called exactly once, no backoff sleep happens and no fallback result is
\* returned.
C5_NoObjectRaisesAtOnce ==
    \A run \in {titleRun, descRun} :
        (Len(run.kinds) >= 1 /\ run.kinds[1] = "text_without_object") =>
            /\ run.status = "raised"
            /\ run.calls = 1
            /\ run.sleeps = 0

\* A strategy of the analyze_job call raised.
StrategyRaised == titleRun.status = "raised" \/ descRun.status = "raised"

\* C17: analyze_job never propagates an exception: any exception raised during
\* title scoring, description scoring or persistence yields a result with
\* status "error" carrying the job id (with the title and company of the same
\* job record) and the error.
C17_ExceptionsBecomeErrorResults ==
    an.pc = "done" =>
        /\ result.status \in {"ok", "error"}
        /\ result.job_id = an.job_id
        /\ StrategyRaised <=> result = ErrorResult(an.job_id, "ValueError")
        /\ result.status = "error" /\ ~StrategyRaised =>
              /\ an.store_results
              /\ result = ErrorResult(an.job_id, "IntegrityError")
        /\ result.status = "ok" => result.error = "none"

\* The description strategy raised after the title passed.
C17_Witness ==
    /\ an.pc = "done"
    /\ titleRun.status = "returned"
    /\ descRun.status = "raised"
    /\ result = ErrorResult(an.job_id, "ValueError")

\* Persistence raised.
C17_WitnessStore ==
    /\ an.pc = "done"
    /\ descRun.status = "returned"
    /\ result = ErrorResult(an.job_id, "IntegrityError")

\* The step in which analyze_job finishes the full pipeline and has stored its
\* result.
FullPipelineStored ==
    /\ an.pc = "desc"
    /\ an'.pc = "done"
    /\ an.store_results
    /\ result'.status = "ok"

\* C19: when analyze_job runs the full pipeline with persistence for a (job,
\* user) pair, it writes the analysis row, then appends analyzed, then appends
\* relevant if relevance_score is at least the relevance threshold and
\* irrelevant otherwise, so that the pair's current state afterwards is that
\* classification.
C19_ClassificationIsCurrentState ==
    [][FullPipelineStored =>
          LET j == an.job_id
              u == an.user_id
              score == result'.relevance_score
              class == IF score >= RelevanceThreshold(an.prefs)
                       THEN "relevant" ELSE "irrelevant"
              n == Len(job_states)
          IN  /\ [job_id |-> j, user_id |-> u, relevance_score |-> score] \in job_analysis'
              /\ Len(job_states') = n + 2
              /\ SubSeq(job_states', 1, n) = job_states
              /\ job_states'[n + 1].state = "analyzed"
              /\ job_states'[n + 2].state = class
              /\ \A i \in {n + 1, n + 2} :
                    job_states'[i].job_id = j /\ job_states'[i].user_id = u
              /\ \A r \in get_current_job_state(job_states', j, u) : r.state = class]_vars

----------------------------------------------------------------------------
(* Properties of the scraper *)

\* The log entries of one kind about posting j in session n.
LogEntries(kind, j, n) ==
    {i \in DOMAIN scrLog :
        scrLog[i].kind = kind /\ scrLog[i].job_id = j /\ scrLog[i].session = n}

StateEntries(st, j, n) ==
    {i \in LogEntries("state", j, n) : scrLog[i].state = st}

\* Posting j was delivered at least twice in session n, the first time as a
\* posting the initiating user had no state for and that _handle_data took up.
DeliveredTwice(j, n) ==
    /\ Cardinality(LogEntries("data", j, n)) >= 2
    /\ LET first == CHOOSE i \in LogEntries("data", j, n) :
                        \A k \in LogEntries("data", j, n) : i <= k
       IN  scrLog[first].fresh /\ scrLog[first].accepted

Rediscovered(j) ==
    /\ Accepted(scraper, j)
    /\ ~SeenThisRun(scraper, j)
    /\ PairRows(job_states, j, scraper.current_user_id) # <<>>

\* C14: when the scraper discovers a posting the initiating user already has
\* state for, it appends exactly one queued_for_analysis row if the user's
\* current state is new_scraped, queued_for_analysis or analyzing, and no state
\* row at all if it is analyzed, relevant, irrelevant, viewed, saved, applied or
\* rejected.
C14_RequeueOnlyBeforeAnalysis ==
    [][\A j \in Jobs :
          (ScraperService_handle_data(j) /\ Rediscovered(j)) =>
              LET u == scraper.current_user_id
                  current == LastAppended(job_states, j, u)
              IN  /\ current \in {"new_scraped", "queued_for_analysis", "analyzing"} =>
                        /\ Len(job_states') = Len(job_states) + 1
                        /\ SubSeq(job_states', 1, Len(job_states)) = job_states
                        /\ LET r == job_states'[Len(job_states')]
                           IN  /\ r.job_id = j
                               /\ r.user_id = u
                               /\ r.state = "queued_for_analysis"
                  /\ current \in {"analyzed", "relevant", "irrelevant", "viewed",
                                  "saved", "applied", "rejected"} =>
                        job_states' = job_states]_vars

----------------------------------------------------------------------------
(* Properties of the scheduler *)

TerminalStatuses == {"completed", "failed"}

\* The terminal statuses a run has recorded, as positions of its record.
TerminalRecords(w) ==
    {i \in DOMAIN workers[w].recorded :
        workers[w].recorded[i].status \in TerminalStatuses}

\* The workflow thread has ended (it returned, or it died in the handler).
RunEnded(w) == workers[w].pc \in {"done", "crashed"}

\* C7: every scrape -> analyze workflow run (manual or scheduled) first
\* records status running and eventually records exactly one terminal status
\* for its job id: completed with both the scraping and the analysis result
\* attached, or failed with the exception text, with start and end times
\* stamped.
C7_OneTerminalStatusPerRun ==
    \A w \in Workers :
        LET rec == workers[w].recorded
        IN  /\ rec # <<>> => rec[1].status = "running"
            /\ Cardinality(TerminalRecords(w)) <= 1
            /\ RunEnded(w) => Cardinality(TerminalRecords(w)) = 1
            /\ \A i \in TerminalRecords(w) :
                  /\ rec[i].start_time /\ rec[i].end_time
                  /\ rec[i].status = "completed" =>
                        rec[i].result = {"scraping", "analyzing"}
                  /\ rec[i].status = "failed" => rec[i].error

\* C8: every scrape -> analyze workflow run updates the last_run timestamp of
\* the user's schedule (when the user has one), whether the run ends
\* completed or failed.
C8_LastRunUpdatedByEveryRun ==
    \A w \in Workers :
        (RunEnded(w) /\ workers[w].user_id \in DOMAIN schedule_settings) =>
            /\ workers[w].updated_last_run
            /\ schedule_settings[workers[w].user_id] # Missing

\* C9: every invocation of a registered job callback by the scheduler (on
\* setting a status, on a step update and on cancel) happens after the status
\* lock has been released: no callback runs while the lock is held.
C9_CallbacksOutsideLock ==
    \A a \in schedLog :
        a.op \in {"invoke_status", "invoke_step", "invoke_cancel"} => ~a.lock_held

\* C10: every read-modify-write of the job-status map and of the per-job
\* callback map (registration, lookup-then-invoke, removal) is performed while
\* holding the status lock, so no thread ever acts on an entry another thread
\* has just removed.
C10_MapsOnlyUnderLock ==
    \A a \in schedLog :
        /\ a.op \in {"register", "lookup", "remove", "write_status", "update_status"}
              => a.lock_held
        /\ a.op # "KeyError"

\* The runs with the job id of worker w.
SameJob(w) == {v \in Workers : workers[v].job_id = workers[w].job_id}

\* Worker w is past the _set_job_status call that set completed or failed.
PastTerminalStatus(w) == workers[w].pc \in {"update_last_run", "done", "crashed"}

\* C11: setting a job's status to completed or failed invokes the job's
\* registered callback with the new record and removes it; afterwards no
\* callback remains registered for that job id (of a run that has the id to
\* itself) and the callback is never invoked again for that job.
C11_TerminalStatusEndsCallback ==
    /\ notified.again = {}
    /\ \A w \in Workers :
          (PastTerminalStatus(w) /\ SameJob(w) = {w}) =>
              workers[w].job_id \notin DOMAIN callbacks

\* C12: cancel_job on a tracked job (which it marks canceled with an end time)
\* invokes the job's registered callback once, removes it and returns true; on
\* an unknown job id it returns false.
C12_CancelJobOutcome ==
    canceller.pc = "returned" =>
        IF canceller.tracked
        THEN /\ canceller.result = "True"
             /\ canceller.had_callback => canceller.invoked
        ELSE canceller.result = "False"

----------------------------------------------------------------------------
(* Properties of the orchestrator *)

\* C13: the orchestrator's update_job_state accepts only the target states
\* saved, applied and rejected; for any other target it raises an
\* invalid-transition error (ValueError) and appends no state row.
C13_OnlySavedAppliedRejected ==
    [][\A j \in Jobs, u \in UserIds, s \in TargetInputs :
          OrchestratorService_update_job_state(j, u, s) =>
              /\ s \notin {"saved", "applied", "rejected"} =>
                    /\ lastCall' = UpdateCall("ValueError")
                    /\ job_states' = job_states
              /\ s \in {"saved", "applied", "rejected"} =>
                    /\ lastCall' # UpdateCall("ValueError")
                    /\ lastCall' = UpdateCall("success") =>
                          job_states' = Append(job_states, StateRow(j, u, s, clock))]_vars

\* A refused request after an accepted one.
C13_Witness ==
    /\ lastCall = UpdateCall("ValueError")
    /\ \E i \in DOMAIN job_states : job_states[i].state \in {"saved", "applied", "rejected"}

\* C20: every call to scrape_jobs updates the user's schedule last_run
\* timestamp before it returns, whatever its outcome (success result or error
\* result).
C20_ScrapeAlwaysUpdatesLastRun ==
    \A w \in Workers :
        workers[w].pc = "scrape_update" =>
            schedule_settings[workers[w].user_id] # Missing

----------------------------------------------------------------------------
(* Properties of the analysis queue *)

\* The postings of the batch on which something failed.
FailedPostings == {i \in DOMAIN batch.handled : batch.handled[i].failed}

ErrorEvents(j) ==
    {i \in DOMAIN batch.events :
        batch.events[i].kind = "error" /\ batch.events[i].job_id = j}

\* C15: in analyze_queued_jobs, a failure while processing one queued posting
\* is caught and counted in the errors tally (with an error progress event),
\* and every remaining queued posting of the batch is still processed.
C15_FailuresCountedAsErrors ==
    batch.pc = "done" =>
        /\ Len(batch.handled) = batch.results.total
        /\ batch.results.errors = Cardinality(FailedPostings)
        /\ batch.callback # 0 =>
              \A i \in FailedPostings : ErrorEvents(batch.handled[i].job_id) # {}

\* _process_queued_job takes up a posting that has an analysis row.
AlreadyAnalyzedStep ==
    /\ JobAnalysisService_process_queued_job
    /\ Head(batch.queued) \in job_listings
    /\ get_job_analysis(job_analysis, Head(batch.queued), batch.user_id) # {}

\* C16: in analyze_queued_jobs, for a queued posting that already has an
\* analysis row for the user, no strategy is invoked and no analyzing state is
\* appended; analyzed and then relevant or irrelevant (the stored score
\* compared with the current relevance threshold) are appended, and the
\* posting is counted as both analyzed and skipped.
C16_AlreadyAnalyzedIsReclassified ==
    [][AlreadyAnalyzedStep =>
          LET j == Head(batch.queued)
              u == batch.user_id
              n == Len(job_states)
              threshold == IF batch.prefs.relevance_threshold = Missing
                           THEN DEFAULT_RELEVANCE_THRESHOLD
                           ELSE batch.prefs.relevance_threshold
          IN  /\ UNCHANGED <<an, titleRun, descRun, result>>
              /\ Len(job_states') = n + 2
              /\ SubSeq(job_states', 1, n) = job_states
              /\ \A i \in {n + 1, n + 2} :
                    job_states'[i].job_id = j /\ job_states'[i].user_id = u
              /\ job_states'[n + 1].state = "analyzed"
              /\ \E a \in job_analysis :
                    /\ a.job_id = j /\ a.user_id = u
                    /\ job_states'[n + 2].state =
                          IF a.relevance_score >= threshold
                          THEN "relevant" ELSE "irrelevant"
              /\ batch'.results.analyzed = batch.results.analyzed + 1
              /\ batch'.results.skipped = batch.results.skipped + 1
              /\ batch'.results.errors = batch.results.errors]_vars

\* A stored score of 0.9 met a threshold of 1.0: the posting was counted as
\* analyzed and skipped and is irrelevant now.
C16_Witness ==
    /\ batch.pc = "done"
    /\ batch.prefs.relevance_threshold = 10
    /\ \E i \in DOMAIN batch.handled :
          /\ batch.handled[i].path = "already_analyzed"
          /\ LET j == batch.handled[i].job_id
             IN  /\ [job_id |-> j, user_id |-> batch.user_id, relevance_score |-> 9]
                        \in job_analysis
                 /\ LastAppended(job_states, j, batch.user_id) = "irrelevant"
    /\ batch.results.skipped >= 1
    /\ batch.results.analyzed >= 1

\* C18: reanalyze_job reports every failure (including an unknown job id and a
\* failed analysis) by returning a payload with status "error" rather than
\* raising, and returns status "success" only when the analysis actually
\* succeeded.
C18_ReanalysisReportsFailures ==
    /\ reanalysis.pc # "raised"
    /\ reanalysis.pc = "returned" =>
          /\ reanalysis.status \in {"success", "error"}
          /\ reanalysis.failed => reanalysis.status = "error"
          /\ reanalysis.status = "success" => result.error = "none"

----------------------------------------------------------------------------
(* Claims about the schedules (checked under SpecSchedules) *)

\* No thread is inside _load_schedules or between the write and the load of
\* update_schedule, no load was left by an exception, and a load completed.
LoadingCompleted ==
    /\ \A t \in LoaderThreads : loaders[t].pc \in {"idle", "write", "done", "rejected"}
    /\ \E t \in LoaderThreads : loaders[t].pc = "done"

\* The periodic jobs registered with a given value
Registered(job) == {i \in DOMAIN triggers : triggers[i] = job}

\* The enabled rows whose well-formed value asks for a given periodic job
Asking(job) ==
    {i \in DOMAIN schedule_rows :
        schedule_rows[i].enabled /\ JobFor(schedule_rows[i]) = job}

\* C21: whenever schedule loading has completed (at scheduler thread start and
\* after every update_schedule, in any order or overlap), the registered
\* periodic triggers are exactly one per enabled schedule row with a
\* well-formed value; disabled rows and malformed values have no trigger.
C21_TriggersMatchEnabledRows ==
    LoadingCompleted =>
        /\ \A i \in DOMAIN triggers :
              Cardinality(Registered(triggers[i])) = Cardinality(Asking(triggers[i]))
        /\ \A i \in DOMAIN schedule_rows :
              LET job == JobFor(schedule_rows[i])
              IN  IF schedule_rows[i].enabled /\ job \notin {NoTrigger, Raised}
                  THEN Cardinality(Registered(job)) = Cardinality(Asking(job))
                  ELSE TRUE

\* C28: after any sequence of update_user_schedule calls for a user, including
\* concurrent ones, there is at most one schedule_settings row for that user,
\* and it holds the most recently written type, time and enabled flag.
C28_OneScheduleRowPerUser ==
    [][\A t \in RequestThreads :
          UpdateUserSchedule_Write(t) =>
              LET u == loaders[t].user_id
                  in == loaders[t].input
              IN  /\ Cardinality(UserRows(schedule_rows', u)) = 1
                  /\ \A i \in UserRows(schedule_rows', u) :
                        /\ schedule_rows'[i].schedule_type = in.schedule_type
                        /\ schedule_rows'[i].execution_time = in.execution_time
                        /\ schedule_rows'[i].enabled = in.enabled]_vars

----------------------------------------------------------------------------
(* Claims about the poll thread (checked under SpecLifecycle) *)

\* C22: after any sequence of start, stop and restart calls at most one
\* scheduler poll thread is polling: start does nothing while a poll thread is
\* running, and a poll thread that stop has told to stop never resumes firing
\* jobs.
C22_AtMostOnePollThread ==
    [][/\ Cardinality(AlivePollThreads(poll_threads')) <= 1
       /\ \A t \in PollThreadIds :
             poll_threads[t].told => ~SchedulerLoop_RunPending(t, TRUE)]_vars

----------------------------------------------------------------------------
(* Further claims about the persistence layer (checked under SpecDB) *)

\* C23: after any sequence and interleaving of scrapes, analyses and
\* deletions, the shared listing row of a job id is deleted only once no user
\* retains a state or analysis row for it: whenever any state or analysis row
\* references a job id, its listing row exists.
C23_ReferencedListingExists ==
    /\ \A i \in DOMAIN job_states : job_states[i].job_id \in job_listings
    /\ \A a \in job_analysis : a.job_id \in job_listings

\* User 1 has just deleted job j1, for which user 2 holds nothing but an
\* analysis row: the listing row is kept.
C23_Witness ==
    /\ lastCall = DeleteCall("j1", 1)
    /\ PairRows(job_states, "j1", 2) = <<>>
    /\ get_job_analysis(job_analysis, "j1", 2) # {}
    /\ "j1" \in job_listings

----------------------------------------------------------------------------
(* Claims about browsing (checked under SpecBrowse) *)

\* C25: get_job_details appends a viewed state for the pair if and only if the
\* pair's current state is relevant or saved; in every other case, including
\* the pair having no state, it appends nothing.
C25_ViewedIffRelevantOrSaved ==
    /\ viewer.pc = "returned" =>
          (viewer.outcome = "viewed" <=> viewer.latest \in {"relevant", "saved"})
    /\ viewer.pc = "raised" => viewer.outcome # "viewed"

----------------------------------------------------------------------------
(* Claims about the state history (checked under SpecHistory) *)

IsPrefix(a, b) == Len(a) <= Len(b) /\ SubSeq(b, 1, Len(a)) = a

\* C24: existing job-state rows are never updated or deleted by any operation
\* other than job deletion and the maintenance script: scraping, batch
\* analysis, reanalysis, viewing job details and direct state updates only
\* ever append rows.
C24_StateRowsAppendOnly ==
    [][\/ \E j \in Jobs, u \in UserIds : OrchestratorService_delete_job(j, u)
       \/ clear_stale_queued_jobs
       \/ IsPrefix(job_states, job_states')]_vars

\* The posting was scraped and queued, the batch analysis classified it as
\* relevant and get_job_details marked it viewed: five rows and then a sixth
\* were appended to the two of the scrape.
C24_Witness ==
    /\ Len(job_states) >= 6
    /\ job_states[1].state = "new_scraped"
    /\ job_states[2].state = "queued_for_analysis"
    /\ \E i \in DOMAIN job_states : job_states[i].state = "relevant"
    /\ job_states[Len(job_states)].state = "viewed"
    /\ viewer.outcome = "viewed"
    /\ batch.pc = "done"

----------------------------------------------------------------------------
(* Claims about the scoped transaction (checked under SpecTransaction) *)

\* What delete_job(j, u) makes of the tables when all its statements apply
Deleted(t, j, u) ==
    LET rows == DeleteUserStates(t.job_states, j, u)
        analysis == DeleteUserAnalysis(t.job_analysis, j, u)
    IN  Tables(IF \E r \in Range(rows) : r.job_id = j THEN t.job_listings
               ELSE IF \E a \in analysis : a.job_id = j THEN t.job_listings
               ELSE t.job_listings \ {j},
               rows, analysis)

\* C26: a scoped transaction commits all of its statements on normal
\* completion; if any exception occurs inside it, every statement is rolled
\* back and the exception re-raised, so that a cascading delete_job that fails
\* part-way leaves all state, analysis and listing rows as they were.
C26_TransactionAllOrNothing ==
    LET now == Tables(job_listings, job_states, job_analysis)
    IN  /\ txn.pc = "committed" => now = Deleted(txn.began, txn.job_id, txn.user_id)
        /\ txn.pc = "raised" => now = txn.began

\* delete_job failed after its two DELETE statements had removed a state row
\* and an analysis row of the pair, and both rows are back.
C26_Witness ==
    /\ txn.pc = "raised"
    /\ txn.executed >= 2
    /\ PairRows(job_states, txn.job_id, txn.user_id) # <<>>
    /\ get_job_analysis(job_analysis, txn.job_id, txn.user_id) # {}

----------------------------------------------------------------------------
(* Claims about the connection pool (checked under SpecPool) *)

\* C27: each thread gets its own database connection, created on first use and
\* reused later, and no connection is ever used by a thread other than the one
\* it was created for, including threads started after earlier threads have
\* exited.
C27_ConnectionPerThread ==
    /\ \A use \in used : connections[use[1]] = use[2]
    /\ \A t \in DbThreads :
          Cardinality({use \in used : use[2] = t}) <= 1

----------------------------------------------------------------------------
(* Claims about the search (checked under SpecSearch) *)

\* C29: search_jobs returns at most one row per job for the user, and the
\* state carried by that row is the job's latest state for that user, with or
\* without a state filter.
C29_SearchCarriesLatestState ==
    [][\A u \in UserIds, states \in StateFilters :
          OrchestratorService_search_jobs(u, states) =>
              /\ \A r \in search'.results : \A q \in search'.results :
                    r.job_id = q.job_id => r = q
              /\ \A r \in search'.results :
                    r.state = LatestState(r.job_id, u)]_vars

----------------------------------------------------------------------------
(* Claims about passwords (checked under SpecPassword) *)

\* C30: every password produced by generate_password passes validate_password
\* (minimum length 8, an uppercase letter, a lowercase letter, a digit and a
\* punctuation character).
C30_GeneratedPasswordIsValid ==
    pw.verdict # "none" => pw.verdict = "valid"

----------------------------------------------------------------------------
(* The appended classification and the returned is_relevant flag *)

\* A call of analyze_job with persistence finishes with a result whose rows
\* were stored.
StoredAnalysisFinishes ==
    /\ an.pc \in {"title", "desc"}
    /\ an'.pc = "done"
    /\ an.store_results
    /\ result'.status = "ok"
    /\ Len(job_states') = Len(job_states) + 2

\* C31: for every analyze_job call with persistence, the classification state
\* appended for the pair agrees with the returned is_relevant flag: relevant
\* is appended exactly when the result has is_relevant = true, also when
\* description scoring was skipped by the title gate.
C31_StateAgreesWithIsRelevant ==
    [][StoredAnalysisFinishes =>
          LET row == job_states'[Len(job_states')]
          IN  /\ row.job_id = an.job_id
              /\ row.user_id = an.user_id
              /\ row.state \in {"relevant", "irrelevant"}
              /\ (row.state = "relevant") <=> result'.is_relevant]_vars

----------------------------------------------------------------------------
(* Postings left in analyzing *)

\* Every analyzing row of the pair is followed by a relevant or irrelevant
\* row of the pair.
AnalyzingIsFollowedByClassification(j, u) ==
    \A i \in DOMAIN job_states :
        (/\ job_states[i].job_id = j
         /\ job_states[i].user_id = u
         /\ job_states[i].state = "analyzing") =>
            \E k \in DOMAIN job_states :
                /\ k > i
                /\ job_states[k].job_id = j
                /\ job_states[k].user_id = u
                /\ job_states[k].state \in {"relevant", "irrelevant"}

\* C32: when analyze_queued_jobs or reanalyze_job returns, no posting it
\* processed is left with analyzing as its current state for that user: every
\* posting that had analyzing appended has a later relevant or irrelevant
\* state, also when its analysis failed.
C32_NoPostingLeftAnalyzing ==
    /\ batch.pc = "done" =>
          \A i \in DOMAIN batch.handled :
              AnalyzingIsFollowedByClassification(batch.handled[i].job_id,
                                                  batch.user_id)
    /\ reanalysis.pc = "returned" =>
          AnalyzingIsFollowedByClassification(reanalysis.job_id, reanalysis.user_id)

----------------------------------------------------------------------------
(* Canceled jobs *)

\* Job id is the id of one workflow run only.
OnlyRunOf(id) == Cardinality({w \in Workers : workers[w].job_id = id}) = 1

\* C33: once a tracked job's status is canceled it is never replaced by
\* running, completed or failed: a workflow that was in flight when the job
\* was canceled does not overwrite the canceled record when it finishes.
\* (Stated for a job id that a single run has, so that the record can only be
\* replaced by the run that was canceled.)
C33_CanceledStaysCanceled ==
    [][\A id \in DOMAIN running_jobs :
          (running_jobs[id].status = "canceled" /\ OnlyRunOf(id)) =>
              /\ id \in DOMAIN running_jobs'
              /\ running_jobs'[id].status = "canceled"]_vars

----------------------------------------------------------------------------
(* Job ids of distinct runs *)

\* The workflow runs started so far.
StartedRuns == {w \in Workers : workers[w].pc # "idle"}

\* C34: distinct workflow runs always get distinct job ids: two run_job_now
\* calls for the same user, or two scheduled firings for the same user, never
\* share a job id, so one run's status record and callback are never
\* overwritten by another run's.
C34_DistinctRunsDistinctIds ==
    \A v \in StartedRuns : \A w \in StartedRuns :
        v # w => workers[v].job_id # workers[w].job_id

----------------------------------------------------------------------------
(* Polling the status of a manual run *)

\* get_job_status(job_id): `with self.status_lock: return
\* self.running_jobs.get(job_id)`, the record or nothing (None).
get_job_status(jobs, id) == IF id \in DOMAIN jobs THEN {jobs[id]} ELSE {}

\* C35: once run_job_now has returned a job id, get_job_status for that id
\* never reports the job as unknown: the running record is visible to a status
\* poll from the moment the id is handed to the caller.  (A poll goes through
\* when status_lock is free.)
C35_ReturnedIdIsKnown ==
    \A w \in StartedRuns :
        (workers[w].type = "manual" /\ status_lock = "free") =>
            get_job_status(running_jobs, workers[w].job_id) # {}

----------------------------------------------------------------------------
(* Specification of the scrape calls: two calls of scrape_jobs or           *)
(* scrape_company_jobs on the one scraper service, one after the other or   *)
(* overlapping, with the events of their queries.                           *)

\* The job ids a company scrape is asked to find.
AllowLists == (SUBSET Jobs) \ {{}}

InitScrapes == InitScraper

NextScrapes ==
    \/ \E s \in ScrapeRuns, u \in UserIds : ScrapeRun_scrape_jobs(s, u)
    \/ \E s \in ScrapeRuns, u \in UserIds, ids \in AllowLists :
            ScrapeRun_scrape_company_jobs(s, u, ids)
    \/ \E s \in ScrapeRuns, j \in Jobs : ScrapeRun_handle_data(s, j)
    \/ \E s \in ScrapeRuns : ScrapeRun_handle_end(s)
    \/ \E s \in ScrapeRuns : ScrapeRun_run_raises(s)

SpecScrapes == InitScrapes /\ [][NextScrapes]_vars

\* C36: when scrapes for two different users overlap on the same scraper
\* service, every state row and progress event produced for a discovered
\* posting is attributed to the user and callback of the scrape that
\* discovered it.
C36_AttributedToDiscoveringScrape ==
    \A i \in DOMAIN runLog :
        (/\ runLog[i].kind \in {"state", "job_found"}
         /\ \A r \in ScrapeRuns \ {runLog[i].run} :
                scrape_runs[r].user_id # scrape_runs[runLog[i].run].user_id) =>
            /\ runLog[i].user_id = scrape_runs[runLog[i].run].user_id
            /\ runLog[i].callback = scrape_runs[runLog[i].run].callback

\* The deliveries of posting j to call s so far.
RunEntries(kind, s, j) ==
    {i \in DOMAIN runLog :
        runLog[i].kind = kind /\ runLog[i].run = s /\ runLog[i].job_id = j}

\* C37: a general scrape (scrape_jobs) is never filtered by an allow-list left
\* over from an earlier scrape_company_jobs call, however that earlier call
\* ended: every posting it discovers that was not already seen in this run is
\* processed.  (Stated for a scrape_jobs call during which no other call was
\* in progress.)
C37_GeneralScrapeNotFiltered ==
    \A s \in ScrapeRuns : \A j \in Jobs :
        (scrape_runs[s].kind = "general" /\ ~scrape_runs[s].overlapped) =>
            \A i \in RunEntries("data", s, j) :
                (\A k \in RunEntries("data", s, j) : i <= k) => runLog[i].processed

\* C38: a posting returned by more than one query of the same scrape_jobs call
\* is processed once: that call appends at most one queued_for_analysis row
\* for it and fires at most one job_found event, even though the session-end
\* event fires between queries.  (Stated for a scrape_jobs call during which
\* no other call was in progress.)
C38_ProcessedOncePerCall ==
    \A s \in ScrapeRuns : \A j \in Jobs :
        (scrape_runs[s].kind = "general" /\ ~scrape_runs[s].overlapped) =>
            /\ Cardinality({i \in RunEntries("state", s, j) :
                               runLog[i].state = "queued_for_analysis"}) <= 1
            /\ Cardinality(RunEntries("job_found", s, j)) <= 1

----------------------------------------------------------------------------
(* services/job_analysis_service.py: _process_queued_job with a callback    *)
(* that raises on an event                                                  *)

\* callback("analyzing", job) raises: analyzing has been appended, analyze_job
\* is not called, the except branch counts the error and reports it.
ProcessQueuedJob_analyzing_callback_raises ==
    /\ UNCHANGED restVars
    /\ batch.pc = "loop"
    /\ batch.queued # <<>>
    /\ batch.callback # 0
    /\ LET j == Head(batch.queued)
           u == batch.user_id
       IN  /\ j \in job_listings
           /\ get_job_analysis(job_analysis, j, u) = {}
           /\ \E times \in ClockReadings(1) :
                /\ job_states' = AppendStates(job_states, j, u, <<"analyzing">>, times)
                /\ clock' = times[1]
           /\ batch' = [batch EXCEPT
                          !.queued = Tail(@),
                          !.results.errors = @ + 1,
                          !.events = Event(batch, "error", j),
                          !.handled = Append(@, Handled(j, "callback_raised", TRUE))]
    /\ UNCHANGED <<an, titleRun, descRun, result, reanalysis>>
    /\ UNCHANGED <<job_listings, job_analysis, lastCall>>
    /\ UNCHANGED <<scrVars, schVars>>

\* callback("analyzed", analysis) raises: the result has been tallied by
\* _update_analysis_results, and the except branch counts the error as well
\* and reports it.
ProcessQueuedJob_analyzed_callback_raises ==
    /\ UNCHANGED restVars
    /\ batch.pc = "job"
    /\ an.pc = "done"
    /\ batch.callback # 0
    /\ LET j == Head(batch.queued)
       IN  batch' = [batch EXCEPT
                        !.pc = "loop",
                        !.queued = Tail(@),
                        !.results = [UpdateAnalysisResults(@, result)
                                        EXCEPT !.errors = @ + 1],
                        !.events = Event(batch, "error", j),
                        !.handled = Append(@, Handled(j, "callback_raised", TRUE))]
    /\ UNCHANGED <<an, titleRun, descRun, result, reanalysis>>
    /\ UNCHANGED <<dbVars, scrVars, schVars>>

----------------------------------------------------------------------------
(* Specification of the tallies: one analyze_queued_jobs call over postings *)
(* the scraper has queued, with a provider that may fail and a callback     *)
(* that may raise.                                                          *)

InitTally == InitQueue

NextTally ==
    \/ \E u \in UserIds, limit \in Limits, cb \in Callbacks, prefs \in QueuePrefInputs :
            JobAnalysisService_analyze_queued_jobs(u, limit, cb, prefs)
    \/ JobAnalysisService_process_queued_job
    \/ ProcessQueuedJob_analyzing_callback_raises
    \/ JobAnalysisService_update_analysis_results
    \/ ProcessQueuedJob_analyzed_callback_raises
    \/ JobAnalysisService_analyze_queued_jobs_return
    \/ \E o \in QueueOutcomes : TitleAttempt(o)
    \/ \E o \in QueueOutcomes : DescAttempt(o)
    \/ \E j \in Jobs, u \in UserIds : OrchestratorService_delete_job(j, u)

SpecTally == InitTally /\ [][NextTally]_vars

\* C39: the final tally returned by analyze_queued_jobs always satisfies
\* analyzed + errors = total and relevant + not_relevant = analyzed, with
\* skipped <= analyzed, whatever mix of successes, already-analyzed postings,
\* analysis failures and callback failures occurred in the batch.
C39_TallyAddsUp ==
    batch.pc = "done" =>
        /\ batch.results.analyzed + batch.results.errors = batch.results.total
        /\ batch.results.relevant + batch.results.not_relevant = batch.results.analyzed
        /\ batch.results.skipped <= batch.results.analyzed

----------------------------------------------------------------------------
(* The queue over many workflow runs: scrape_jobs bringing new postings,    *)
(* analyze_queued_jobs taking the newest of the queue up to its limit, and  *)
(* the user deleting postings that are classified.  Timestamps are kept up  *)
(* to their order: every reading of the wall clock is later than every      *)
(* timestamp in the table.                                                  *)

BatchLimit == 1        \* the limit the workflow passes (50 in the code)

\* The user whose workflows run, and the postings the scraper can find.
BacklogUser == CHOOSE u \in UserIds : \A v \in UserIds : u <= v

BacklogJobs == Jobs \cup {"j3"}

\* The rows with every timestamp replaced by its rank.
Normalized(rows) ==
    LET T == {rows[i].state_timestamp : i \in DOMAIN rows}
    IN  [i \in DOMAIN rows |->
            [rows[i] EXCEPT !.state_timestamp =
                Cardinality({t \in T : t < rows[i].state_timestamp})]]

\* n later readings of datetime.now().
LaterReadings(rows, n) ==
    LET T == {rows[i].state_timestamp : i \in DOMAIN rows}
        m == IF T = {} THEN -1 ELSE Max(T)
    IN  [i \in 1..n |-> m + i]

\* _process_queued_job for each posting of the queue in turn, the provider
\* scoring it sc[j]: analyzing, then analyze_job's analyzed and classification
\* (for a posting with an analysis row the stored score classifies).
RECURSIVE ProcessQueue(_, _, _, _)
ProcessQueue(rows, analysis, q, sc) ==
    IF q = <<>> THEN [rows |-> rows, analysis |-> analysis]
    ELSE LET j == Head(q)
             u == BacklogUser
             existing == get_job_analysis(analysis, j, u)
             score == IF existing # {}
                      THEN (CHOOSE a \in existing : TRUE).relevance_score
                      ELSE sc[j]
             class == ClassificationState(score, CHOOSE p \in QueuePrefInputs :
                                                     p.relevance_threshold = Missing)
             sts == IF existing # {} THEN <<"analyzed", class>>
                    ELSE <<"analyzing", "analyzed", class>>
         IN  ProcessQueue(AppendStates(rows, j, u, sts, LaterReadings(rows, Len(sts))),
                          InsertOrReplaceAnalysis(analysis, j, u, score),
                          Tail(q), sc)

\* Step 1 of a workflow run: scrape_jobs finds the new posting j, and
\* _handle_data lists it and appends new_scraped and queued_for_analysis.
Backlog_scrape_jobs(j) ==
    /\ UNCHANGED restVars
    /\ j \notin job_listings
    /\ LET sts == StatesToAppend(FALSE, "none")
       IN  job_states' = Normalized(AppendStates(job_states, j, BacklogUser, sts,
                                                 LaterReadings(job_states, Len(sts))))
    /\ job_listings' = job_listings \cup {j}
    /\ lastCall' = NoCall
    /\ UNCHANGED <<job_analysis, clock>>
    /\ UNCHANGED <<anVars, scrVars, schVars>>

\* Step 2 of a workflow run: analyze_queued_jobs(user_id, limit) fetches the
\* queue with get_jobs_by_state (newest first, cut at the limit) and processes
\* it; every analysis succeeds.
Backlog_analyze_queued_jobs ==
    /\ UNCHANGED restVars
    /\ \E q \in QueuedLists(BacklogUser, BatchLimit) : \E sc \in [BacklogJobs -> Scores] :
         /\ q # <<>>
         /\ LET done == ProcessQueue(job_states, job_analysis, q, sc)
            IN  /\ job_states' = Normalized(done.rows)
                /\ job_analysis' = done.analysis
    /\ lastCall' = NoCall
    /\ UNCHANGED <<job_listings, clock>>
    /\ UNCHANGED <<anVars, scrVars, schVars>>

\* The user deletes a posting that is classified: delete_job(job_id, user_id).
Backlog_delete_job(j) ==
    /\ UNCHANGED restVars
    /\ j \in job_listings
    /\ PairRows(job_states, j, BacklogUser) # <<>>
    /\ LastAppended(job_states, j, BacklogUser) \in {"relevant", "irrelevant"}
    /\ LET rows == DeleteUserStates(job_states, j, BacklogUser)
           analysis == DeleteUserAnalysis(job_analysis, j, BacklogUser)
       IN  /\ job_states' = Normalized(rows)
           /\ job_analysis' = analysis
           /\ job_listings' = IF RefCount(rows, analysis, j) = 0
                              THEN job_listings \ {j} ELSE job_listings
    /\ lastCall' = DeleteCall(j, BacklogUser)
    /\ UNCHANGED clock
    /\ UNCHANGED <<anVars, scrVars, schVars>>

InitBacklog == InitScraper

NextBacklog ==
    \/ \E j \in BacklogJobs : Backlog_scrape_jobs(j)
    \/ Backlog_analyze_queued_jobs
    \/ \E j \in BacklogJobs : Backlog_delete_job(j)

\* Workflows keep running: a scrape that can find a new posting finds it, and
\* a batch that has a queue to process is run.
SpecBacklog ==
    /\ InitBacklog
    /\ [][NextBacklog]_vars
    /\ WF_vars(\E j \in BacklogJobs : Backlog_scrape_jobs(j))
    /\ WF_vars(Backlog_analyze_queued_jobs)

\* The posting's current state is queued_for_analysis.
IsQueued(j) ==
    j \in get_jobs_by_state(job_listings, job_states, BacklogUser, "queued_for_analysis")

\* The posting has been classified.
IsClassified(j) ==
    \E i \in DOMAIN job_states :
        /\ job_states[i].job_id = j
        /\ job_states[i].user_id = BacklogUser
        /\ job_states[i].state \in {"relevant", "irrelevant"}

\* C40: if scrape -> analyze workflows keep running for a user, every posting
\* whose current state is queued_for_analysis is eventually processed and
\* classified relevant or irrelevant: no queued posting is passed over forever
\* by the batch limit while newer postings keep arriving.
C40_QueuedEventuallyClassified ==
    \A j \in BacklogJobs : IsQueued(j) ~> IsClassified(j)

====
